---- MODULE Spec2Model ----
(***************************************************************************)
(* A model of the CSV-driven manifest generator of osdu-data-load-tno,     *)
(* src/src/generate-manifest-scripts/csv_to_json.py.                       *)
(*                                                                         *)
(* Strings are sequences of one-character strings, so that find, replace,  *)
(* strip, lower, split and the decimal conversions are computed and not    *)
(* assumed.  A JSON value is a pair <<tag, payload>>, j[1] its tag and     *)
(* j[2] its payload; a dict is the sequence of its items <<key, value>> in *)
(* insertion order, as a Python dict is.                                   *)
(* The run is modelled with schema_path and schema_ns_name not supplied    *)
(* (both default to None in create_manifest_from_csv), the template a JSON *)
(* object, and an output directory that is empty when the run starts.      *)
(* open() and json.dump() of a row's file may raise; os.remove() removes   *)
(* the file when it is there; the write of the group file does not raise.  *)
(* float and the datetime coercions are modelled for plain decimal and     *)
(* numeric year, month and day texts.                                      *)
(* The required_template argument is None (or the empty text) or the text  *)
(* of a JSON value, held as the value json.loads returns for it.           *)
(***************************************************************************)
EXTENDS Integers, Sequences, FiniteSets, TLC

\* The longest CSV a run reads, in data rows.
MaxRows == 2

--------------------------------------------------------------------------
(* Python str operations on character sequences                            *)

Min(S) == CHOOSE m \in S : \A n \in S : m <= n
Max(S) == CHOOSE m \in S : \A n \in S : m >= n

IsSpace(c) == c \in {" ", "\t", "\n", "\r"}

RECURSIVE LStrip(_)
LStrip(s) == IF s # <<>> /\ IsSpace(Head(s)) THEN LStrip(Tail(s)) ELSE s

RECURSIVE RStrip(_)
RStrip(s) ==
    IF s # <<>> /\ IsSpace(s[Len(s)]) THEN RStrip(SubSeq(s, 1, Len(s) - 1)) ELSE s

\* str.strip()
Strip(s) == RStrip(LStrip(s))

UpperChars == <<"A","B","C","D","E","F","G","H","I","J","K","L","M",
                "N","O","P","Q","R","S","T","U","V","W","X","Y","Z">>
LowerChars == <<"a","b","c","d","e","f","g","h","i","j","k","l","m",
                "n","o","p","q","r","s","t","u","v","w","x","y","z">>

LowerChar(c) ==
    IF \E i \in 1..Len(UpperChars) : UpperChars[i] = c
    THEN LowerChars[CHOOSE i \in 1..Len(UpperChars) : UpperChars[i] = c]
    ELSE c

\* str.lower()
Lower(s) == [i \in 1..Len(s) |-> LowerChar(s[i])]

\* s[a:b] for 0 <= a, 0 <= b
Slice(s, a, b) == SubSeq(s, a + 1, IF b < Len(s) THEN b ELSE Len(s))

\* s[a:]
SliceFrom(s, a) == SubSeq(s, a + 1, Len(s))

\* str.find(sub): the least 0-based index at which sub occurs, else -1
Find(s, sub) ==
    LET at == {i \in 0..(Len(s) - Len(sub)) : SubSeq(s, i + 1, i + Len(sub)) = sub}
    IN  IF at = {} THEN -1 ELSE Min(at)

StartsWith(s, pre) == Len(pre) <= Len(s) /\ SubSeq(s, 1, Len(pre)) = pre

EndsWith(s, suf) ==
    Len(suf) <= Len(s) /\ SubSeq(s, Len(s) - Len(suf) + 1, Len(s)) = suf

\* str.replace(old, new) for a non-empty old: every occurrence, left to right
RECURSIVE Replace(_, _, _)
Replace(s, old, new) ==
    LET i == Find(s, old)
    IN  IF i < 0 THEN s
        ELSE SubSeq(s, 1, i) \o new \o Replace(SliceFrom(s, i + Len(old)), old, new)

\* str.split(sep) for a one-character sep
RECURSIVE Split(_, _)
Split(s, sep) ==
    LET i == Find(s, <<sep>>)
    IN  IF i < 0 THEN <<s>>
        ELSE <<SubSeq(s, 1, i)>> \o Split(SliceFrom(s, i + 1), sep)

\* sep.join(parts)
RECURSIVE Join(_, _)
Join(parts, sep) ==
    IF parts = <<>> THEN <<>>
    ELSE IF Len(parts) = 1 THEN parts[1]
    ELSE parts[1] \o sep \o Join(Tail(parts), sep)

DigitChars == <<"0","1","2","3","4","5","6","7","8","9">>

IsDigit(c) == \E i \in 1..Len(DigitChars) : DigitChars[i] = c

DigitValue(c) == (CHOOSE i \in 1..Len(DigitChars) : DigitChars[i] = c) - 1

\* str(n) for a natural number n
RECURSIVE StrOfNat(_)
StrOfNat(n) ==
    IF n < 10 THEN <<DigitChars[n + 1]>>
    ELSE StrOfNat(n \div 10) \o <<DigitChars[(n % 10) + 1]>>

\* the value of a non-empty sequence of decimal digits
RECURSIVE NatOfDigits(_)
NatOfDigits(s) ==
    IF s = <<>> THEN 0
    ELSE NatOfDigits(SubSeq(s, 1, Len(s) - 1)) * 10 + DigitValue(s[Len(s)])

AllDigits(s) == s # <<>> /\ \A i \in 1..Len(s) : IsDigit(s[i])

--------------------------------------------------------------------------
(* JSON values                                                             *)

JStr(s) == <<"str", s>>
JInt(n) == <<"int", n>>
JBool(b) == <<"bool", b>>
JFloat(s) == <<"float", s>>
JList(items) == <<"list", items>>
JDict(items) == <<"dict", items>>
\* Python's None, which is also JSON null
None == <<"null", <<>>>>
\* an exception raised by the step that should have produced the value
Fault(kind) == <<"fault", kind>>

IsStr(j) == j[1] = "str"
IsList(j) == j[1] = "list"
IsDict(j) == j[1] = "dict"
IsFault(j) == j[1] = "fault"

Item(key, val) == <<key, val>>

\* key in d
DictHas(d, key) == \E i \in 1..Len(d[2]) : d[2][i][1] = key

\* d.get(key)
DictGet(d, key) ==
    IF DictHas(d, key)
    THEN d[2][CHOOSE i \in 1..Len(d[2]) : d[2][i][1] = key][2]
    ELSE None

\* d[key] = val: an existing key keeps its place, a new key goes last
DictSet(d, key, val) ==
    IF DictHas(d, key)
    THEN JDict([i \in 1..Len(d[2]) |->
                   IF d[2][i][1] = key THEN Item(key, val) ELSE d[2][i]])
    ELSE JDict(Append(d[2], Item(key, val)))

\* del d[key] as it would be were the key kept
DictDel_kept(d, key) == d

\* del d[key] for a key of d
DictDel(d, key) == JDict(SelectSeq(d[2], LAMBDA it : it[1] # key))

--------------------------------------------------------------------------
(* TemplateParameterIndex: parse_template_parameters                       *)

parameter_start_delimiter == <<"{", "{">>
parameter_end_delimiter == <<"}", "}">>

\* The integer key 0 of the dict {0: val[0]} that wraps the element of a
\* one-element list; it differs from every string key.
Key0 == <<"0:int">>

\* A parameter occurrence, the tuple (root_object, keys, root_list); an anchor
\* of root_list is a pair (root_object, keys).
Anchor(root_object, keys) == [root |-> root_object, keys |-> keys]
Rec(root_object, keys, root_list) ==
    [root |-> root_object, keys |-> keys, root_list |-> root_list]

\* parameters_object: an insertion-ordered dict from placeholder to its list
\* of occurrences, as a sequence of items
PoHas(po, parameter) == \E i \in 1..Len(po) : po[i][1] = parameter

PoGet(po, parameter) == po[CHOOSE i \in 1..Len(po) : po[i][1] = parameter][2]

\* parameters_object[parameter].append(rec), creating the list when absent
PoAppend(po, parameter, rec) ==
    IF PoHas(po, parameter)
    THEN [i \in 1..Len(po) |->
             IF po[i][1] = parameter THEN Item(parameter, Append(po[i][2], rec))
             ELSE po[i]]
    ELSE Append(po, Item(parameter, <<rec>>))

RECURSIVE parse_str(_, _, _, _, _)
parse_str(root_object, keys, val0, root_list, po) ==
    LET val == Strip(val0)
        parameter_start_index == Find(val, parameter_start_delimiter)
        parameter_end_index == Find(val, parameter_end_delimiter)
    IN  IF parameter_start_index >= 0 /\ parameter_end_index >= 0
        THEN LET parameter == Slice(val, parameter_start_index,
                                    parameter_end_index + Len(parameter_end_delimiter))
                 po1 == IF Len(parameter) > 0
                        THEN PoAppend(po, parameter, Rec(root_object, keys, root_list))
                        ELSE po
                 val_left == SliceFrom(val, parameter_end_index
                                            + Len(parameter_end_delimiter))
             IN  IF Len(val_left) > 0
                 THEN parse_str(root_object, keys, val_left, root_list, po1)
                 ELSE po1
        ELSE po

\* parse_dict from item i of parent_object on; the items are visited in order
RECURSIVE parse_dict_from(_, _, _, _, _, _)
\* parse_dict as it would be were every non-empty list taken for an array
\* template, its first element being the element template
parse_dict_from_any(parent_object, i, root_object, keys, root_list, po) ==
    IF i > Len(parent_object[2]) THEN po
    ELSE
      LET key == parent_object[2][i][1]
          val == parent_object[2][i][2]
          new_keys == Append(keys, key)
          po1 == IF IsDict(val)
                 THEN parse_dict_from(val, 1, root_object, new_keys, root_list, po)
                 ELSE IF IsList(val) /\ Len(val[2]) >= 1
                 THEN LET new_root_list == Append(root_list, Anchor(root_object, new_keys))
                          new_root_object == JDict(<<Item(Key0, val[2][1])>>)
                      IN  parse_dict_from(new_root_object, 1, new_root_object, <<>>,
                                          new_root_list, po)
                 ELSE IF IsStr(val)
                 THEN parse_str(root_object, new_keys, val[2], root_list, po)
                 ELSE po
      IN  parse_dict_from(parent_object, i + 1, root_object, keys, root_list, po1)

parse_dict_from(parent_object, i, root_object, keys, root_list, po) ==
    IF i > Len(parent_object[2]) THEN po
    ELSE
      LET key == parent_object[2][i][1]
          val == parent_object[2][i][2]
          new_keys == Append(keys, key)
          po1 == IF IsDict(val)
                 THEN parse_dict_from(val, 1, root_object, new_keys, root_list, po)
                 ELSE IF IsList(val) /\ Len(val[2]) = 1
                 THEN LET new_root_list == Append(root_list, Anchor(root_object, new_keys))
                          new_root_object == JDict(<<Item(Key0, val[2][1])>>)
                      IN  parse_dict_from(new_root_object, 1, new_root_object, <<>>,
                                          new_root_list, po)
                 ELSE IF IsStr(val)
                 THEN parse_str(root_object, new_keys, val[2], root_list, po)
                 ELSE po
      IN  parse_dict_from(parent_object, i + 1, root_object, keys, root_list, po1)

parse_dict(parent_object, root_object, keys, root_list, po) ==
    parse_dict_from(parent_object, 1, root_object, keys, root_list, po)

\* parse_template_parameters(root_object, parameters_object) for an empty
\* parameters_object: the index it fills in
parse_template_parameters(root_object) ==
    parse_dict(root_object, root_object, <<>>, <<>>, <<>>)

--------------------------------------------------------------------------
(* ColumnBinder: map_csv_column_names_to_parameters                        *)

\* A binding of map_parameter_column: a CSV column index (a scalar parameter)
\* or a list of [i1, ..., id, column index] lists (an array parameter).
BindCol(n) == <<"col", n>>
BindList(l) == <<"list", l>>

MapHas(m, parameter) == \E i \in 1..Len(m) : m[i][1] = parameter

\* map_parameter_column.get(parameter) as it would be were no binding kept
MapGet_unbound(m, parameter) == None

\* map_parameter_column.get(parameter)
MapGet(m, parameter) ==
    IF MapHas(m, parameter)
    THEN m[CHOOSE i \in 1..Len(m) : m[i][1] = parameter][2]
    ELSE None

\* map_parameter_column[parameter] = binding
MapSet(m, parameter, binding) ==
    IF MapHas(m, parameter)
    THEN [i \in 1..Len(m) |->
             IF m[i][1] = parameter THEN Item(parameter, binding) ELSE m[i]]
    ELSE Append(m, Item(parameter, binding))

\* the 0-based positions of col_name in col_names
Positions(col_names, col_name) ==
    {i \in 0..(Len(col_names) - 1) : col_names[i + 1] = col_name}

\* get_column_index as it would be without the search for a second
\* occurrence
get_column_index_first(col_names, col_name) ==
    [raised |-> FALSE,
     idx |-> IF Positions(col_names, col_name) = {} THEN -1
             ELSE Min(Positions(col_names, col_name))]

\* get_column_index: the first position of col_name, -1 when it is absent;
\* raises when col_name occurs again after its first position
get_column_index(col_names, col_name) ==
    LET at == Positions(col_names, col_name)
    IN  [raised |-> Cardinality(at) > 1,
         idx |-> IF at = {} THEN -1 ELSE Min(at)]

\* the column names read from the first row of the CSV file
column_names_of(header) == [i \in 1..Len(header) |-> Lower(Strip(header[i]))]

\* [1-9][0-9]*
IsIndexText(s) == AllDigits(s) /\ s[1] # "0"

\* re.fullmatch(re.escape(parameter_key) + '_[1-9][0-9]*' * d_array, column_name)
MatchesIndexed(parameter_key, d_array, column_name) ==
    /\ StartsWith(column_name, Append(parameter_key, "_"))
    /\ LET parts == Split(SliceFrom(column_name, Len(parameter_key) + 1), "_")
       IN  /\ Len(parts) = d_array
           /\ \A i \in 1..Len(parts) : IsIndexText(parts[i])

\* col_nums of a matching column name
ColNums(parameter_key, column_name) ==
    LET parts == Split(SliceFrom(column_name, Len(parameter_key) + 1), "_")
    IN  [i \in 1..Len(parts) |-> NatOfDigits(parts[i])]

\* IndexesCount as it would be with min for max
IndexesCount_min(column_names, parameter_key, d_array) ==
    LET matching == {c \in 1..Len(column_names) :
                        MatchesIndexed(parameter_key, d_array, column_names[c])}
    IN  [i \in 1..d_array |->
            IF matching = {} THEN 0
            ELSE Min({ColNums(parameter_key, column_names[c])[i] : c \in matching})]

\* indexes_count after the scan of the column names: per position, the
\* greatest index seen in a matching column name, 0 when there is none
IndexesCount(column_names, parameter_key, d_array) ==
    LET matching == {c \in 1..Len(column_names) :
                        MatchesIndexed(parameter_key, d_array, column_names[c])}
    IN  [i \in 1..d_array |->
            IF matching = {} THEN 0
            ELSE Max({ColNums(parameter_key, column_names[c])[i] : c \in matching})]

\* parameter_key + '_' + str(indexes_column[0] + 1) + '_' + ...
RECURSIVE ParameterWithIndexes(_, _, _, _)
ParameterWithIndexes(name, indexes_column, i, d_array) ==
    IF i > d_array THEN name
    ELSE ParameterWithIndexes(name \o <<"_">> \o StrOfNat(indexes_column[i] + 1),
                              indexes_column, i + 1, d_array)

RECURSIVE AdvanceIndexes(_, _, _, _, _)
\* AdvanceIndexes as it would be were the positions after the advanced one
\* not set back to 0
AdvanceIndexes_unreset(indexes_column, indexes_count, i, d_array, done) ==
    IF i < 1 THEN [indexes |-> indexes_column, done |-> done]
    ELSE LET temp_val == indexes_column[i] + 1
         IN  IF temp_val < indexes_count[i]
             THEN [indexes |-> [j \in 1..Len(indexes_column) |->
                                   IF j = i THEN temp_val ELSE indexes_column[j]],
                   done |-> done]
             ELSE AdvanceIndexes(indexes_column, indexes_count, i - 1, d_array, i = 1)

\* The for loop that ends an iteration of the while loop, from position i
\* (1-based) down: the position it advances, with the positions after it
\* reset, or done when position 1 cannot advance.
AdvanceIndexes(indexes_column, indexes_count, i, d_array, done) ==
    IF i < 1 THEN [indexes |-> indexes_column, done |-> done]
    ELSE LET temp_val == indexes_column[i] + 1
         IN  IF temp_val < indexes_count[i]
             THEN [indexes |-> [j \in 1..Len(indexes_column) |->
                                   IF j = i THEN temp_val
                                   ELSE IF j > i /\ j <= d_array THEN 0
                                   ELSE indexes_column[j]],
                   done |-> done]
             ELSE AdvanceIndexes(indexes_column, indexes_count, i - 1, d_array, i = 1)

\* the while loop: parameter_column once it is done, or the raise of
\* get_column_index
RECURSIVE BindIndexes(_, _, _, _, _, _)
BindIndexes(column_names, parameter_key, d_array, indexes_count, indexes_column, parameter_column) ==
    LET got == get_column_index(column_names,
                   ParameterWithIndexes(parameter_key, indexes_column, 1, d_array))
        found == [j \in 1..(d_array + 1) |->
                     IF j = d_array + 1 THEN got.idx ELSE indexes_column[j]]
        cur == IF got.idx >= 0 THEN found ELSE indexes_column
        col == IF got.idx >= 0 THEN Append(parameter_column, found)
               ELSE parameter_column
        nxt == AdvanceIndexes(cur, indexes_count, d_array, d_array, FALSE)
    IN  IF got.raised THEN [raised |-> TRUE, list |-> <<>>]
        ELSE IF nxt.done THEN [raised |-> FALSE, list |-> col]
        ELSE BindIndexes(column_names, parameter_key, d_array, indexes_count,
                         nxt.indexes, col)

\* parameter[len('{{'):-len('}}')].strip().lower()
ParameterKey(parameter) ==
    Lower(Strip(SubSeq(parameter, Len(parameter_start_delimiter) + 1,
                       Len(parameter) - Len(parameter_end_delimiter))))

\* The body of the loops over parameters and their occurrences, from
\* occurrence r of parameter p on; m is map_parameter_column so far.
RECURSIVE BindFrom(_, _, _, _, _)
BindFrom(column_names, po, p, r, m) ==
    IF p > Len(po) THEN [raised |-> "", map |-> m]
    ELSE IF r > Len(po[p][2]) THEN BindFrom(column_names, po, p + 1, 1, m)
    ELSE
      LET parameter == po[p][1]
          parameter_key == ParameterKey(parameter)
          d_array == Len(po[p][2][r].root_list)
          parameter_column == MapGet(m, parameter)
      IN  IF d_array = 0
          THEN IF parameter_column = None
               THEN LET got == get_column_index(column_names, parameter_key)
                    IN  IF got.raised
                        THEN [raised |-> "Duplicate parameter found in csv file",
                              map |-> m]
                        ELSE BindFrom(column_names, po, p, r + 1,
                                      IF got.idx >= 0
                                      THEN MapSet(m, parameter, BindCol(got.idx))
                                      ELSE m)
               ELSE BindFrom(column_names, po, p, r + 1, m)
          ELSE IF parameter_column # None
               THEN [raised |-> "Duplicate array parameter not allowed", map |-> m]
               ELSE LET indexes_count ==
                            IndexesCount(column_names, parameter_key, d_array)
                        bound == BindIndexes(column_names, parameter_key, d_array,
                                     indexes_count,
                                     [j \in 1..(d_array + 1) |->
                                         IF j = d_array + 1 THEN -1 ELSE 0],
                                     <<>>)
                    IN  IF bound.raised
                        THEN [raised |-> "Duplicate parameter found in csv file",
                              map |-> m]
                        ELSE BindFrom(column_names, po, p, r + 1,
                                      MapSet(m, parameter, BindList(bound.list)))

\* map_csv_column_names_to_parameters, given the first row of the CSV file:
\* the map it returns, or the message of the exception it raises
map_csv_column_names_to_parameters(header, parameters_object) ==
    BindFrom(column_names_of(header), parameters_object, 1, 1, <<>>)

--------------------------------------------------------------------------
(* RowMaterializer: navigation                                             *)

\* A position in a JSON value is a sequence of steps: into a dict by key or
\* into a list by 0-based index.
KeyStep(key) == <<"k", key>>
IdxStep(index) == <<"i", index>>

KeySteps(keys) == [i \in 1..Len(keys) |-> KeyStep(keys[i])]

\* obj[s1][s2]...; a KeyError, IndexError or TypeError on the way is a fault
RECURSIVE GetAt(_, _)
GetAt(obj, path) ==
    IF path = <<>> THEN obj
    ELSE LET s == Head(path)
         IN  IF s[1] = "k" /\ IsDict(obj) /\ DictHas(obj, s[2])
             THEN GetAt(DictGet(obj, s[2]), Tail(path))
             ELSE IF s[1] = "i" /\ IsList(obj) /\ s[2] < Len(obj[2])
             THEN GetAt(obj[2][s[2] + 1], Tail(path))
             ELSE Fault("KeyError")

\* obj[s1][s2]... = val, for a position whose parent exists
RECURSIVE SetAt(_, _, _)
SetAt(obj, path, val) ==
    IF path = <<>> THEN val
    ELSE LET s == Head(path)
         IN  IF s[1] = "k"
             THEN DictSet(obj, s[2], SetAt(DictGet(obj, s[2]), Tail(path), val))
             ELSE JList([j \in 1..Len(obj[2]) |->
                            IF j = s[2] + 1 THEN SetAt(obj[2][j], Tail(path), val)
                            ELSE obj[2][j]])

\* array_object after  while len(array_object) <= index: append(deepcopy(template))
Grown(items, index, template) ==
    [j \in 1..(IF Len(items) <= index THEN index + 1 ELSE Len(items)) |->
        IF j <= Len(items) THEN items[j] ELSE template]

\* get_root_object from coordinate i on.  ldm is the manifest being built and
\* array_path the position in it of array_object; the anchors after the first
\* hold the template elements, which are only ever copied.  The result is ldm
\* with the arrays grown and the position return_root/return_keys designate.
RECURSIVE get_root_object_from(_, _, _, _, _, _)
get_root_object_from(ldm, root_object_key_list, indexes, i, array_path, target) ==
    IF i > Len(indexes) THEN [ldm |-> ldm, path |-> target, raised |-> FALSE]
    ELSE
      LET index == indexes[i]
          child == root_object_key_list[i + 1]
          strip0 == child.keys[1] = Key0
          child_object_template ==
              IF strip0 THEN DictGet(child.root, Key0) ELSE child.root
          child_keys == IF strip0 THEN Tail(child.keys) ELSE child.keys
          array_object == GetAt(ldm, array_path)
      IN  IF ~IsList(array_object)
          THEN [ldm |-> ldm, path |-> target, raised |-> TRUE]
          ELSE
            LET grown == Grown(array_object[2], index, child_object_template)
                ldm1 == SetAt(ldm, array_path, JList(grown))
                return_root == grown[index + 1]
                path1 == IF IsStr(return_root)
                         THEN Append(array_path, IdxStep(index))
                         ELSE Append(array_path, IdxStep(index)) \o KeySteps(child_keys)
            IN  IF IsFault(GetAt(ldm1, path1))
                THEN [ldm |-> ldm1, path |-> path1, raised |-> TRUE]
                ELSE get_root_object_from(ldm1, root_object_key_list, indexes,
                                          i + 1, path1, path1)

get_root_object(ldm, root_object_key_list, indexes) ==
    LET root_keys == KeySteps(root_object_key_list[1].keys)
    IN  get_root_object_from(ldm, root_object_key_list, indexes, 1, root_keys,
                             root_keys)

--------------------------------------------------------------------------
(* RowMaterializer: replace_parameter_with_data                            *)

Chars_int == <<"i","n","t">>
Chars_float == <<"f","l","o","a","t">>
Chars_bool == <<"b","o","o","l">>
Chars_datetime_ymd ==
    <<"d","a","t","e","t","i","m","e","_","Y","Y","Y","Y","-","M","M","-","D","D">>
Chars_datetime_mdy ==
    <<"d","a","t","e","t","i","m","e","_","M","M","/","D","D","/","Y","Y","Y","Y">>

\* the alternatives of the pattern, in its order
CoercionNames ==
    <<Chars_int, Chars_float, Chars_bool, Chars_datetime_ymd, Chars_datetime_mdy>>

\* ('true','yes','y','t','1')
TrueTexts == {<<"t","r","u","e">>, <<"y","e","s">>, <<"y">>, <<"t">>, <<"1">>}

\* digits, with single underscores allowed between digits
RECURSIVE IsIntDigits(_)
IsIntDigits(s) ==
    /\ s # <<>>
    /\ IsDigit(s[1])
    /\ \/ Len(s) = 1
       \/ IsIntDigits(Tail(s))
       \/ Len(s) >= 3 /\ s[2] = "_" /\ IsIntDigits(SubSeq(s, 3, Len(s)))

WithoutUnderscores(s) == SelectSeq(s, LAMBDA c : c # "_")

\* int(data) for a stripped text: an optional sign and decimal digits
IntOf(data) ==
    LET signed == data # <<>> /\ data[1] \in {"+", "-"}
        digits == IF signed THEN Tail(data) ELSE data
    IN  IF IsIntDigits(digits)
        THEN JInt((IF signed /\ data[1] = "-" THEN -1 ELSE 1)
                  * NatOfDigits(WithoutUnderscores(digits)))
        ELSE Fault("ValueError")

\* float(data) for a stripped text in plain decimal notation (an optional
\* sign, digits, an optional fraction); the float keeps its text
FloatOf(data) ==
    LET signed == data # <<>> /\ data[1] \in {"+", "-"}
        body == IF signed THEN Tail(data) ELSE data
        parts == Split(body, ".")
    IN  IF \/ Len(parts) = 1 /\ IsIntDigits(parts[1])
           \/ /\ Len(parts) = 2
              /\ parts[1] = <<>> \/ IsIntDigits(parts[1])
              /\ parts[2] = <<>> \/ IsIntDigits(parts[2])
              /\ parts[1] # <<>> \/ parts[2] # <<>>
        THEN JFloat(data)
        ELSE Fault("ValueError")

IsLeapYear(y) == (y % 4 = 0 /\ y % 100 # 0) \/ y % 400 = 0

DaysInMonth(y, m) ==
    IF m = 2 THEN (IF IsLeapYear(y) THEN 29 ELSE 28)
    ELSE IF m \in {4, 6, 9, 11} THEN 30 ELSE 31

Pad(s, width) == [i \in 1..(width - Len(s)) |-> "0"] \o s

\* a date that strptime accepts from the texts of its year, month and day
DateOf(ytext, mtext, dtext) ==
    IF /\ AllDigits(ytext) /\ Len(ytext) = 4
       /\ AllDigits(mtext) /\ Len(mtext) <= 2
       /\ AllDigits(dtext) /\ Len(dtext) <= 2
       /\ NatOfDigits(ytext) >= 1
       /\ NatOfDigits(mtext) \in 1..12
       /\ NatOfDigits(dtext) \in 1..DaysInMonth(NatOfDigits(ytext), NatOfDigits(mtext))
    THEN [ok |-> TRUE, y |-> NatOfDigits(ytext), m |-> NatOfDigits(mtext),
          d |-> NatOfDigits(dtext)]
    ELSE [ok |-> FALSE, y |-> 0, m |-> 0, d |-> 0]

\* strptime(data, '%Y-%m-%d').strftime("%Y-%m-%dT%H:%M:%SZ"); %Y of strftime
\* does not pad the year
DatetimeYmdOf(data) ==
    LET parts == Split(data, "-")
        date == IF Len(parts) = 3 THEN DateOf(parts[1], parts[2], parts[3])
                ELSE DateOf(<<>>, <<>>, <<>>)
    IN  IF date.ok
        THEN JStr(StrOfNat(date.y) \o <<"-">> \o Pad(StrOfNat(date.m), 2) \o <<"-">>
                  \o Pad(StrOfNat(date.d), 2)
                  \o <<"T","0","0",":","0","0",":","0","0","Z">>)
        ELSE Fault("ValueError")

\* strptime(data, '%m/%d/%Y').isoformat()
DatetimeMdyOf(data) ==
    LET parts == Split(data, "/")
        date == IF Len(parts) = 3 THEN DateOf(parts[3], parts[1], parts[2])
                ELSE DateOf(<<>>, <<>>, <<>>)
    IN  IF date.ok
        THEN JStr(Pad(StrOfNat(date.y), 4) \o <<"-">> \o Pad(StrOfNat(date.m), 2)
                  \o <<"-">> \o Pad(StrOfNat(date.d), 2)
                  \o <<"T","0","0",":","0","0",":","0","0">>)
        ELSE Fault("ValueError")

\* re.fullmatch(r'(int|float|bool|datetime_...)\(' + re.escape(parameter) + r'\)', text)
IsCoercion(text, parameter) ==
    \E i \in 1..Len(CoercionNames) :
        text = CoercionNames[i] \o <<"(">> \o parameter \o <<")">>

\* the value the if/elif chain assigns for a leaf that is a coercion; old is
\* the leaf as it was, which stays when no branch is taken
Coerced(old, result, data) ==
    IF StartsWith(result, Chars_bool) THEN JBool(Lower(data) \in TrueTexts)
    ELSE IF StartsWith(result, Chars_datetime_ymd) THEN DatetimeYmdOf(data)
    ELSE IF StartsWith(result, Chars_datetime_mdy) THEN DatetimeMdyOf(data)
    ELSE IF StartsWith(result, Chars_int) THEN IntOf(data)
    ELSE IF StartsWith(result, Chars_float) THEN FloatOf(data)
    ELSE old

\* replace_parameter_with_data on the leaf at `path` of ldm; col_index is
\* None, a column index or (for a scalar occurrence of an array parameter)
\* a list.  The result is ldm afterwards, or the fault raised.
replace_parameter_with_data(ldm, path, parameter, data_row, col_index) ==
    IF col_index # None /\ col_index[1] = "list" THEN Fault("TypeError")
    ELSE IF col_index # None /\ col_index[2] > -1 /\ col_index[2] >= Len(data_row)
    THEN Fault("IndexError")
    ELSE
      LET data == IF col_index # None /\ col_index[2] > -1
                  THEN Strip(data_row[col_index[2] + 1]) ELSE <<>>
          leaf == GetAt(ldm, path)
      IN  IF Len(data) = 0 THEN ldm
          ELSE IF ~IsStr(leaf) THEN Fault("AttributeError")
          ELSE
            LET result == Replace(leaf[2], parameter, data)
                new == IF IsCoercion(Strip(leaf[2]), parameter)
                       THEN Coerced(leaf, result, data)
                       ELSE JStr(result)
            IN  IF IsFault(new) THEN new ELSE SetAt(ldm, path, new)

--------------------------------------------------------------------------
(* RowMaterializer: clear_non_filled_parameters                            *)

\* val.find('{{') >= 0 and val.find('}}') >= 0
HasPlaceholder(text) ==
    Find(text, parameter_start_delimiter) >= 0 /\ Find(text, parameter_end_delimiter) >= 0

RECURSIVE is_item_empty(_)
is_item_empty(item) ==
    IF IsDict(item) THEN \A i \in 1..Len(item[2]) : is_item_empty(item[2][i][2])
    ELSE IF IsList(item) THEN \A i \in 1..Len(item[2]) : is_item_empty(item[2][i])
    ELSE FALSE

RECURSIVE clear_list(_)
RECURSIVE clear_dict(_)

\* a value of a dict or an element of a list after the recursive call on it
Cleared(val) ==
    IF IsDict(val) THEN clear_dict(val)
    ELSE IF IsList(val) THEN clear_list(val)
    ELSE val

clear_list(lst) ==
    LET visited == [i \in 1..Len(lst[2]) |-> Cleared(lst[2][i])]
        kept == SelectSeq(visited, LAMBDA x : ~(IsStr(x) /\ HasPlaceholder(x[2])))
    IN  JList(SelectSeq(kept, LAMBDA x : ~is_item_empty(x)))

\* clear_dict as it would be were a dict it has emptied left under its key
clear_dict_keeps_emptied(d) ==
    LET visited == [i \in 1..Len(d[2]) |-> Item(d[2][i][1], Cleared(d[2][i][2]))]
        to_be_deleted(it) ==
            \/ IsList(it[2]) /\ Len(it[2][2]) = 0
            \/ IsStr(it[2]) /\ HasPlaceholder(it[2][2])
    IN  JDict(SelectSeq(visited, LAMBDA it : ~to_be_deleted(it)))

clear_dict(d) ==
    LET visited == [i \in 1..Len(d[2]) |-> Item(d[2][i][1], Cleared(d[2][i][2]))]
        to_be_deleted(it) ==
            \/ (IsDict(it[2]) \/ IsList(it[2])) /\ Len(it[2][2]) = 0
            \/ IsStr(it[2]) /\ HasPlaceholder(it[2][2])
    IN  JDict(SelectSeq(visited, LAMBDA it : ~to_be_deleted(it)))

clear_non_filled_parameters(ldm) == clear_dict(ldm)

--------------------------------------------------------------------------
(* RowMaterializer: remove_special_tags                                    *)

Chars_oneOf == <<"$","$","_","o","n","e","O","f","_">>
Chars_anyOf == <<"$","$","_","a","n","y","O","f","_">>

\* the number of leading decimal digits of s
RECURSIVE DigitRun(_)
DigitRun(s) == IF s # <<>> /\ IsDigit(s[1]) THEN 1 + DigitRun(Tail(s)) ELSE 0

\* the length of the match of pattern_remove at the start of s, 0 when none:
\* $$_oneOf_ or $$_anyOf_, [1-9][0-9]*, $$
TagLength(s) ==
    IF StartsWith(s, Chars_oneOf) \/ StartsWith(s, Chars_anyOf)
    THEN LET rest == SliceFrom(s, Len(Chars_oneOf))
             n == DigitRun(rest)
         IN  IF n > 0 /\ rest[1] # "0" /\ StartsWith(SliceFrom(rest, n), <<"$", "$">>)
             THEN Len(Chars_oneOf) + n + 2
             ELSE 0
    ELSE 0

\* pattern_remove.sub('', key)
RECURSIVE StripTags(_)
StripTags(key) ==
    IF key = <<>> THEN <<>>
    ELSE IF TagLength(key) > 0 THEN StripTags(SliceFrom(key, TagLength(key)))
    ELSE <<Head(key)>> \o StripTags(Tail(key))

RECURSIVE remove_list_tags(_)
RECURSIVE remove_dict_tags(_)

\* a value after the recursive call on it
Untagged(val) ==
    IF IsDict(val) THEN remove_dict_tags(val)
    ELSE IF IsList(val) THEN remove_list_tags(val)
    ELSE val

remove_list_tags(lst) ==
    LET visited == [i \in 1..Len(lst[2]) |-> Untagged(lst[2][i])]
    IN  IF \E i \in 1..Len(visited) : IsFault(visited[i])
        THEN Fault("Detected duplicate attributes")
        ELSE JList(visited)

\* the loop over to_be_replaced, from item i of the dict as it was visited
RECURSIVE RenameFrom(_, _, _)
RenameFrom(d, visited, i) ==
    IF i > Len(visited) THEN d
    ELSE LET old_key == visited[i][1]
             new_key == StripTags(old_key)
         IN  IF new_key = old_key THEN RenameFrom(d, visited, i + 1)
             ELSE IF DictGet(d, new_key) # None
             THEN Fault("Detected duplicate attributes")
             ELSE RenameFrom(DictSet(DictDel(d, old_key), new_key,
                                     DictGet(d, old_key)),
                             visited, i + 1)

remove_dict_tags(d) ==
    LET visited == [i \in 1..Len(d[2]) |-> Item(d[2][i][1], Untagged(d[2][i][2]))]
    IN  IF \E i \in 1..Len(visited) : IsFault(visited[i][2])
        THEN Fault("Detected duplicate attributes")
        ELSE RenameFrom(JDict(visited), visited, 1)

remove_special_tags(ldm) == remove_dict_tags(ldm)

--------------------------------------------------------------------------
(* RowMaterializer: add_required_fields, set_acl_values, set_legal_tag     *)

tag_optional_field == <<"$">>

RECURSIVE add_fields_list(_, _)
RECURSIVE add_fields_dict(_, _)

\* the recursion into same-typed containers as it would be were the
\* destination overwritten
Merged_overwritten(v_des, v_src) == v_src

\* v_des (or item_des) after the recursion that same-typed containers get
Merged(v_des, v_src) ==
    IF v_des[1] = v_src[1] /\ IsDict(v_src) THEN add_fields_dict(v_des, v_src)
    ELSE IF v_des[1] = v_src[1] /\ IsList(v_src) THEN add_fields_list(v_des, v_src)
    ELSE v_des

\* the loop over src_list, from element i on
RECURSIVE AddFieldsListFrom(_, _, _)
AddFieldsListFrom(des_list, src_list, i) ==
    IF i > Len(src_list[2]) THEN des_list
    ELSE AddFieldsListFrom(
             JList([j \in 1..Len(des_list[2]) |-> Merged(des_list[2][j], src_list[2][i])]),
             src_list, i + 1)

add_fields_list(des_list, src_list) ==
    IF Len(src_list[2]) = 0 \/ Len(des_list[2]) = 0 THEN des_list
    ELSE AddFieldsListFrom(des_list, src_list, 1)

\* the loop over src_dict.items(), from item i on
RECURSIVE AddFieldsDictFrom(_, _, _)
AddFieldsDictFrom(des_dict, src_dict, i) ==
    IF i > Len(src_dict[2]) THEN des_dict
    ELSE
      LET v_src == src_dict[2][i][2]
          optional_field == StartsWith(src_dict[2][i][1], tag_optional_field)
          k == IF optional_field
               THEN SliceFrom(src_dict[2][i][1], Len(tag_optional_field))
               ELSE src_dict[2][i][1]
          des1 == IF ~DictHas(des_dict, k) /\ ~optional_field
                  THEN DictSet(des_dict, k,
                               IF IsDict(v_src) THEN JDict(<<>>)
                               ELSE IF IsList(v_src) THEN JList(<<>>)
                               ELSE v_src)
                  ELSE des_dict
          v_des == DictGet(des1, k)
          des2 == IF v_des # None /\ v_des[1] = v_src[1]
                     /\ (IsDict(v_src) \/ IsList(v_src))
                  THEN DictSet(des1, k, Merged(v_des, v_src))
                  ELSE des1
      IN  AddFieldsDictFrom(des2, src_dict, i + 1)

add_fields_dict(des_dict, src_dict) == AddFieldsDictFrom(des_dict, src_dict, 1)

\* len() raises for a number, and .items() for a non-empty str or list
add_required_fields(ldm, required_template) ==
    IF required_template = None THEN ldm
    ELSE IF required_template[1] \notin {"dict", "list", "str"} THEN Fault("TypeError")
    ELSE IF Len(required_template[2]) = 0 THEN ldm
    ELSE IF ~IsDict(required_template) THEN Fault("AttributeError")
    ELSE add_fields_dict(ldm, required_template)

\* a Python value that is true in a condition: not None and not ''
Truthy(x) == x # None /\ x[2] # <<>>

Chars_acl == <<"a","c","l">>
Chars_viewers == <<"v","i","e","w","e","r","s">>
Chars_owners == <<"o","w","n","e","r","s">>
Chars_legal == <<"l","e","g","a","l">>
Chars_legaltags == <<"l","e","g","a","l","t","a","g","s">>
Chars_countries ==
    <<"o","t","h","e","r","R","e","l","e","v","a","n","t","D","a","t","a",
      "C","o","u","n","t","r","i","e","s">>
Chars_US == <<"U","S">>

\* set_acl_values as it would be were the existing section kept and only
\* its viewers and owners set
set_acl_values_kept(manifest, acl_viewer, acl_owner) ==
    IF ~IsDict(manifest) \/ ~IsDict(DictGet(manifest, Chars_acl)) THEN manifest
    ELSE DictSet(manifest, Chars_acl,
                 DictSet(DictSet(DictGet(manifest, Chars_acl),
                                 Chars_viewers, JList(<<acl_viewer>>)),
                         Chars_owners, JList(<<acl_owner>>)))

set_acl_values(manifest, acl_viewer, acl_owner) ==
    IF ~IsDict(manifest) THEN manifest
    ELSE
      LET popped == IF DictHas(manifest, Chars_acl) THEN DictDel(manifest, Chars_acl)
                    ELSE manifest
          acl1 == IF Truthy(acl_viewer)
                  THEN DictSet(JDict(<<>>), Chars_viewers, JList(<<acl_viewer>>))
                  ELSE JDict(<<>>)
          acl2 == IF Truthy(acl_owner)
                  THEN DictSet(acl1, Chars_owners, JList(<<acl_owner>>))
                  ELSE acl1
      IN  DictSet(popped, Chars_acl, acl2)

\* legal = manifest.get('legal'); the item assignments raise when legal is
\* not a dict
set_legal_tag(manifest, legal_tag) ==
    IF ~IsDict(manifest) THEN manifest
    ELSE LET legal == DictGet(manifest, Chars_legal)
         IN  IF ~IsDict(legal) THEN Fault("TypeError")
             ELSE SetAt(manifest, <<KeyStep(Chars_legal)>>,
                        DictSet(DictSet(legal, Chars_legaltags, JList(<<legal_tag>>)),
                                Chars_countries, JList(<<JStr(Chars_US)>>)))

--------------------------------------------------------------------------
(* RowMaterializer: create_manifest_from_row                               *)

\* "empty top-level array object": the loops over the occurrences, from
\* occurrence r of parameter p on
RECURSIVE EmptyTopArraysFrom(_, _, _, _)
EmptyTopArraysFrom(ldm, po, p, r) ==
    IF p > Len(po) THEN ldm
    ELSE IF r > Len(po[p][2]) THEN EmptyTopArraysFrom(ldm, po, p + 1, 1)
    ELSE LET root_list == po[p][2][r].root_list
         IN  EmptyTopArraysFrom(
                 IF Len(root_list) > 0
                 THEN SetAt(ldm, KeySteps(root_list[1].keys), JList(<<>>))
                 ELSE ldm,
                 po, p, r + 1)

RECURSIVE ReplaceIndexedFrom(_, _, _, _, _, _)

\* after replace_parameter_with_data for entry c: the fault it raised, or the
\* rest of the loop
ReplaceIndexedNext(ldm1, new_root_list, parameter, data_row, parameter_column, c) ==
    IF IsFault(ldm1) THEN ldm1
    ELSE ReplaceIndexedFrom(ldm1, new_root_list, parameter, data_row,
                            parameter_column, c + 1)

\* replace_parameter_with_data at the position get_root_object returned
ReplaceAtRoot(got, parameter, data_row, csv_index) ==
    IF got.raised THEN Fault("KeyError")
    ELSE replace_parameter_with_data(got.ldm, got.path, parameter, data_row,
                                     BindCol(csv_index))

\* the loop over parameter_column for one occurrence inside arrays, from
\* entry c on
ReplaceIndexedFrom(ldm, new_root_list, parameter, data_row, parameter_column, c) ==
    IF c > Len(parameter_column) THEN ldm
    ELSE
      LET indexes_column == parameter_column[c]
          d_array == Len(indexes_column) - 1
      IN  ReplaceIndexedNext(
              ReplaceAtRoot(get_root_object(ldm, new_root_list,
                                            SubSeq(indexes_column, 1, d_array)),
                            parameter, data_row, indexes_column[d_array + 1]),
              new_root_list, parameter, data_row, parameter_column, c)

RECURSIVE ReplaceFrom(_, _, _, _, _, _)

\* after the replacement for occurrence r of parameter p: the fault it raised,
\* or the rest of the loops
ReplaceNext(ldm1, po, map_parameter_column, data_row, p, r) ==
    IF IsFault(ldm1) THEN ldm1
    ELSE ReplaceFrom(ldm1, po, map_parameter_column, data_row, p, r + 1)

\* the body of the loops for one occurrence of `parameter`
ReplaceOccurrence(ldm, parameter, rec, parameter_column, data_row) ==
    IF Len(rec.root_list) = 0
    THEN replace_parameter_with_data(ldm, KeySteps(rec.keys), parameter, data_row,
                                     parameter_column)
    ELSE IF parameter_column = None \/ parameter_column[1] # "list"
    THEN Fault("TypeError")
    ELSE ReplaceIndexedFrom(ldm, Append(rec.root_list, Anchor(rec.root, rec.keys)),
                            parameter, data_row, parameter_column[2], 1)

\* "replace parameters with data": the loops over the occurrences, from
\* occurrence r of parameter p on
ReplaceFrom(ldm, po, map_parameter_column, data_row, p, r) ==
    IF p > Len(po) THEN ldm
    ELSE IF r > Len(po[p][2]) THEN ReplaceFrom(ldm, po, map_parameter_column, data_row,
                                              p + 1, 1)
    ELSE ReplaceNext(ReplaceOccurrence(ldm, po[p][1], po[p][2][r],
                                       MapGet(map_parameter_column, po[p][1]), data_row),
                     po, map_parameter_column, data_row, p, r)

\* "replace parameters with data" after the assert and the emptying of the
\* top-level arrays
Substituted(ldm, new_parameters_object, parameters_object, map_parameter_column, data_row) ==
    IF new_parameters_object # parameters_object THEN Fault("AssertionError")
    ELSE ReplaceFrom(EmptyTopArraysFrom(ldm, new_parameters_object, 1, 1),
                     new_parameters_object, map_parameter_column, data_row, 1, 1)

\* a pass that raises, and every pass after it, yields the fault
Pruned(substituted) ==
    IF IsFault(substituted) THEN substituted
    ELSE clear_non_filled_parameters(substituted)

Stripped(pruned) == IF IsFault(pruned) THEN pruned ELSE remove_special_tags(pruned)

Filled(stripped, required_template) ==
    IF IsFault(stripped) THEN stripped
    ELSE add_required_fields(stripped, required_template)

WithAcl(filled, acl_viewer, acl_owner) ==
    IF IsFault(filled) THEN filled
    ELSE IF Truthy(acl_viewer) \/ Truthy(acl_owner)
    THEN set_acl_values(filled, acl_viewer, acl_owner)
    ELSE filled

WithLegal(with_acl, legal_tag) ==
    IF IsFault(with_acl) THEN with_acl
    ELSE IF Truthy(legal_tag) THEN set_legal_tag(with_acl, legal_tag)
    ELSE with_acl

\* PassesFilled as it would be were the manifest pruned once more after the
\* ACL and the legal tag were set
PassesFilled_pruned_last(substituted, pruned, stripped, filled, acl_viewer, acl_owner, legal_tag) ==
    [substituted |-> substituted, pruned |-> pruned, stripped |-> stripped,
     filled |-> filled,
     manifest |-> Pruned(WithLegal(WithAcl(filled, acl_viewer, acl_owner), legal_tag))]

PassesFilled(substituted, pruned, stripped, filled, acl_viewer, acl_owner, legal_tag) ==
    [substituted |-> substituted, pruned |-> pruned, stripped |-> stripped,
     filled |-> filled,
     manifest |-> WithLegal(WithAcl(filled, acl_viewer, acl_owner), legal_tag)]

PassesStripped(substituted, pruned, stripped, required_template, acl_viewer, acl_owner, legal_tag) ==
    PassesFilled(substituted, pruned, stripped, Filled(stripped, required_template),
                 acl_viewer, acl_owner, legal_tag)

PassesPruned(substituted, pruned, required_template, acl_viewer, acl_owner, legal_tag) ==
    PassesStripped(substituted, pruned, Stripped(pruned), required_template,
                   acl_viewer, acl_owner, legal_tag)

PassesSubstituted(substituted, required_template, acl_viewer, acl_owner, legal_tag) ==
    PassesPruned(substituted, Pruned(substituted), required_template, acl_viewer,
                 acl_owner, legal_tag)

\* Passes as it would be were the index re-derived from ldm after its
\* top-level arrays were emptied
Passes_reindexed_late(root_template, required_template, parameters_object, map_parameter_column, data_row, acl_viewer, acl_owner, legal_tag) ==
    PassesSubstituted(
        Substituted(root_template,
                    parse_template_parameters(
                        EmptyTopArraysFrom(root_template, parameters_object, 1, 1)),
                    parameters_object, map_parameter_column, data_row),
        required_template, acl_viewer, acl_owner, legal_tag)

\* The manifest after each pass of create_manifest_from_row: ldm is the deep
\* copy of root_template.
Passes(root_template, required_template, parameters_object, map_parameter_column, data_row, acl_viewer, acl_owner, legal_tag) ==
    PassesSubstituted(
        Substituted(root_template, parse_template_parameters(root_template),
                    parameters_object, map_parameter_column, data_row),
        required_template, acl_viewer, acl_owner, legal_tag)

\* the manifest create_manifest_from_row returns, or the fault it raises
create_manifest_from_row(root_template, required_template, parameters_object, map_parameter_column, data_row, acl_viewer, acl_owner, legal_tag) ==
    Passes(root_template, required_template, parameters_object, map_parameter_column,
           data_row, acl_viewer, acl_owner, legal_tag).manifest

--------------------------------------------------------------------------
(* ManifestAssembler: create_manifest_from_csv                             *)

tag_file_name == <<"$","f","i","l","e","n","a","m","e">>
tag_schema_id == <<"$","s","c","h","e","m","a">>
tag_array_parent == <<"$","a","r","r","a","y","_","p","a","r","e","n","t">>
tag_object_parent == <<"$","o","b","j","e","c","t","_","p","a","r","e","n","t">>
tag_kind_parent == <<"$","k","i","n","d","_","p","a","r","e","n","t">>
tag_required_template ==
    <<"$","r","e","q","u","i","r","e","d","_","t","e","m","p","l","a","t","e">>

Chars_kind == <<"k","i","n","d">>
Chars_json == <<".","j","s","o","n">>

\* os.path.basename(p)
Basename(p) ==
    LET slashes == {i \in 1..Len(p) : p[i] = "/"}
    IN  IF slashes = {} THEN p ELSE SubSeq(p, Max(slashes) + 1, Len(p))

\* os.path.join(a, b)
PathJoin(a, b) ==
    IF StartsWith(b, <<"/">>) THEN b
    ELSE IF a = <<>> \/ EndsWith(a, <<"/">>) THEN a \o b
    ELSE a \o <<"/">> \o b

\* s[:-n]
DropLast(s, n) == SubSeq(s, 1, Len(s) - n)

\* the length of '.csv', which [:-4] cuts from the name of the CSV file
CsvSuffixLen == 4

\* the output file a row has before its manifest names one
DefaultOutputFile(output_path, input_csv, row_count) ==
    PathJoin(output_path,
             DropLast(Basename(input_csv), CsvSuffixLen) \o <<"_">>
             \o StrOfNat(row_count) \o Chars_json)

\* The loop that renames output_file while its lowercase is in
\* processed_lower; count is duplicate_name_count.
RECURSIVE RenameDuplicate(_, _, _)
RenameDuplicate(output_file, processed_lower, count) ==
    IF Lower(output_file) \notin processed_lower THEN output_file
    ELSE LET name_parts == Split(output_file, ".")
             n == Len(name_parts)
             renamed ==
                 IF n > 1
                 THEN Join([i \in 1..n |->
                               IF i = n - 1
                               THEN name_parts[i] \o <<"_">> \o StrOfNat(count)
                               ELSE name_parts[i]], <<".">>)
                 ELSE output_file \o <<"_">> \o StrOfNat(count)
         IN  RenameDuplicate(renamed, processed_lower, count + 1)

\* The nested dicts the wrapping code builds for parent_items, with `inner`
\* under the last item: lm_parent is advanced through the dicts it creates.
RECURSIVE Nested(_, _)
Nested(parent_items, inner) ==
    IF Len(parent_items) = 1 THEN JDict(<<Item(parent_items[1], inner)>>)
    ELSE JDict(<<Item(Strip(parent_items[1]), Nested(Tail(parent_items), inner))>>)

\* new_lm of the standalone wrapping: 'kind' first when a kind parent is
\* given, then the items of the parent path
Wrapped(output_parent, output_kind_parent, inner) ==
    LET parent_items == Split(output_parent[2], ".")
        new_lm == IF output_kind_parent # None /\ Len(output_kind_parent[2]) > 0
                  THEN JDict(<<Item(Chars_kind, output_kind_parent)>>)
                  ELSE JDict(<<>>)
        nested == Nested(parent_items, inner)
    IN  DictSet(new_lm, nested[2][1][1], nested[2][1][2])

\* The loop that builds group_lm for parent_items[:-1], from item i on: each
\* new dict is stored in group_lm itself, and group_lm_parent (the dict at
\* parent_path) is then indexed by the item.
RECURSIVE GroupParents(_, _, _, _)
GroupParents(group_lm, parent_path, parent_items, i) ==
    IF i > Len(parent_items) - 1
    THEN [raised |-> FALSE, group_lm |-> group_lm, parent_path |-> parent_path]
    ELSE LET parent_item == Strip(parent_items[i])
             group_lm1 == DictSet(group_lm, parent_item, JDict(<<>>))
             path1 == Append(parent_path, KeyStep(parent_item))
         IN  IF IsFault(GetAt(group_lm1, path1))
             THEN [raised |-> TRUE, group_lm |-> group_lm1, parent_path |-> parent_path]
             ELSE GroupParents(group_lm1, path1, parent_items, i + 1)

\* group_lm as built before the rows are read, and the position in it of the
\* list group_lm_parent ends up naming; raised when the code raises
GroupInit(output_array_parent, output_kind_parent) ==
    IF ~IsStr(output_array_parent)
    THEN [raised |-> TRUE, group_lm |-> None, parent_path |-> <<>>]
    ELSE
      LET group_lm0 == IF output_kind_parent # None /\ Len(output_kind_parent[2]) > 0
                       THEN JDict(<<Item(Chars_kind, output_kind_parent)>>)
                       ELSE JDict(<<>>)
          parent_items == Split(output_array_parent[2], ".")
          built == GroupParents(group_lm0, <<>>, parent_items, 1)
          last_item == KeyStep(parent_items[Len(parent_items)])
      IN  IF built.raised THEN built
          ELSE [raised |-> FALSE,
                group_lm |-> SetAt(built.group_lm,
                                   Append(built.parent_path, last_item), JList(<<>>)),
                parent_path |-> Append(built.parent_path, last_item)]

--------------------------------------------------------------------------
(* The run of create_manifest_from_csv as a state machine                  *)

VARIABLES
    inp,                  \* the arguments of the run, the template file and the CSV header
    pc,                   \* "start", "rows" (in the loop over the rows), "done", "aborted"
    root_template, required_template,
    output_array_parent, output_object_parent, output_kind_parent,
    group_lm,             \* None, or the group document
    group_path,           \* the position in group_lm of the list group_lm_parent names
    output_group_filename,
    parameters_object, map_parameter_column,
    row_count, processed, processed_lower, empty_row_count,
    files,                \* the output directory: path -> document written
    reported,             \* the counts the final log lines report
    last,                 \* what the last iteration of the loop did (history)
    tally,                \* how many rows took each way through the loop (history)
    call,                 \* load.py: the arguments of manifest_ingest and the retries of the config
    lpc,                  \* "off", "loop", "send" (in the loop of send_request), "sent", "returned", "exited", "raised"
    obj, rec,             \* the next data_object and the next record of it
    batch_objects,
    final,                \* the batch being sent is the one sent after the loop
    retry,                \* the attempts of send_request that have ended
    batches,              \* the batches passed to send_batch_request so far (history)
    events,               \* the posts, sleeps and log lines of the last send_request (history)
    log                   \* the run ids written to the execution log

vars == <<inp, pc, root_template, required_template, output_array_parent,
          output_object_parent, output_kind_parent, group_lm, group_path,
          output_group_filename, parameters_object, map_parameter_column,
          row_count, processed, processed_lower, empty_row_count, files,
          reported, last, tally,
          call, lpc, obj, rec, batch_objects, final, retry, batches, events, log>>

csv_vars == <<inp, pc, root_template, required_template, output_array_parent,
              output_object_parent, output_kind_parent, group_lm, group_path,
              output_group_filename, parameters_object, map_parameter_column,
              row_count, processed, processed_lower, empty_row_count, files,
              reported, last, tally>>

load_vars == <<call, lpc, obj, rec, batch_objects, final, retry, batches, events, log>>

setup_vars == <<root_template, required_template, output_array_parent,
                output_object_parent, output_kind_parent, group_path,
                output_group_filename, parameters_object, map_parameter_column>>

NoFiles == [path \in {} |-> None]

\* Removed as it would be were the except clause not to remove output_file
Removed_nothing(fs, path) == fs

\* files after os.remove(path), which raises (and is ignored) when path is
\* not there
Removed(fs, path) == [q \in (DOMAIN fs) \ {path} |-> fs[q]]

\* files after a successful open(path, "w") and json.dump(doc)
Written(fs, path, doc) == [q \in (DOMAIN fs) \cup {path} |-> IF q = path THEN doc ELSE fs[q]]

\* what open(path, "w") leaves at path when json.dump then raises
Truncated == <<"truncated", <<>>>>

NoPasses == [substituted |-> None, pruned |-> None, stripped |-> None,
             filled |-> None, manifest |-> None]

NoLast == [kind |-> "none", n |-> 0, row |-> <<>>, passes |-> NoPasses,
           fault_at |-> "", default_file |-> <<>>, output_file |-> <<>>,
           named |-> <<>>, lm |-> None, doc |-> None,
           pre_files |-> NoFiles, pre_processed |-> {}, pre_processed_lower |-> {},
           pre_group |-> None, pre_empty |-> 0]

\* a value of the template under a directive key: d.get(key), and the template
\* after `del d[key]` when the value is not None
Taken(template, key) ==
    IF DictGet(template, key) # None THEN DictDel(template, key) ELSE template

\* group_lm, the parameter index and the column bindings, for the template
\* and the directives taken from it
SetupBound(i, del_raises, t5, req, ap, op, kp, grouped, group, po, bound) ==
    [raised |-> IF del_raises
                THEN "del root_template[required_template_from_template]"
                ELSE IF group.raised THEN "group_lm"
                ELSE bound.raised,
     root_template |-> t5, required_template |-> req,
     output_array_parent |-> ap, output_object_parent |-> op,
     output_kind_parent |-> kp, group_lm |-> group.group_lm,
     group_path |-> group.parent_path,
     output_group_filename |->
         IF grouped
         THEN PathJoin(i.output_path,
                       IF EndsWith(i.group_filename[2], Chars_json)
                       THEN i.group_filename[2]
                       ELSE i.group_filename[2] \o Chars_json)
         ELSE <<>>,
     parameters_object |-> po, map_parameter_column |-> bound.map]

SetupParsed(i, del_raises, t5, req, ap, op, kp, grouped, po) ==
    SetupBound(i, del_raises, t5, req, ap, op, kp, grouped,
               IF grouped THEN GroupInit(ap, kp)
               ELSE [raised |-> FALSE, group_lm |-> None, parent_path |-> <<>>],
               po, map_csv_column_names_to_parameters(i.header, po))

\* Lines 524-598 up to the first raise: the directives, the group document,
\* the parameter index and the column bindings.
SetupResult(i) ==
    LET t0 == i.template_json
        t1 == Taken(t0, tag_schema_id)
        required_template_from_template == DictGet(t1, tag_required_template)
        \* del root_template[required_template_from_template]: the VALUE is
        \* used as the key
        del_raises ==
            /\ required_template_from_template # None
            /\ \/ ~IsStr(required_template_from_template)
               \/ ~DictHas(t1, required_template_from_template[2])
        t2 == IF required_template_from_template # None /\ ~del_raises
              THEN DictDel(t1, required_template_from_template[2]) ELSE t1
        \* json.loads(required_template) of a text that is not empty
        req == IF i.required_template # None
               THEN i.required_template ELSE required_template_from_template
        ap0 == DictGet(t2, tag_array_parent)
        t3 == Taken(t2, tag_array_parent)
        ap == IF i.array_parent # None /\ Len(i.array_parent[2]) > 0
              THEN i.array_parent ELSE ap0
        op0 == DictGet(t3, tag_object_parent)
        t4 == Taken(t3, tag_object_parent)
        op == IF i.object_parent # None /\ Len(i.object_parent[2]) > 0
              THEN i.object_parent ELSE op0
        kp == DictGet(t4, tag_kind_parent)
        t5 == Taken(t4, tag_kind_parent)
        grouped == i.group_filename # None /\ Len(i.group_filename[2]) > 0
    IN  SetupParsed(i, del_raises, t5, req, ap, op, kp, grouped,
                    parse_template_parameters(t5))

\* the state after lines 524-598
SetupDone(r) ==
    /\ pc' = IF r.raised = "" THEN "rows" ELSE "aborted"
    /\ root_template' = r.root_template
    /\ required_template' = r.required_template
    /\ output_array_parent' = r.output_array_parent
    /\ output_object_parent' = r.output_object_parent
    /\ output_kind_parent' = r.output_kind_parent
    /\ group_lm' = r.group_lm
    /\ group_path' = r.group_path
    /\ output_group_filename' = r.output_group_filename
    /\ parameters_object' = r.parameters_object
    /\ map_parameter_column' = r.map_parameter_column
    /\ reported' = [reported EXCEPT !.error = r.raised]

Setup ==
    /\ pc = "start"
    /\ SetupDone(SetupResult(inp))
    /\ UNCHANGED <<inp, row_count, processed, processed_lower, empty_row_count,
                   files, last, tally>>
    /\ UNCHANGED load_vars

\* skip_empty_row as it would be were the cells not stripped before their
\* length is taken
IsEmptyRow_unstripped(rows) == \A c \in 1..Len(rows) : Len(rows[c]) = 0

\* skip_empty_row after the loop over the cells of the row
IsEmptyRow(rows) == \A c \in 1..Len(rows) : Len(Strip(rows[c])) = 0

\* The try statement, lines 625-697, after create_manifest_from_row returned
\* or raised, up to its first raise.  write_fails is the environment's answer
\* to open() and json.dump(): which of them raises ("" when none does).
\* fault_at names the statement that raised ("" when none did) and
\* output_file is the variable's value there.
RowNamed(n, write_fails, passes) ==
    LET default_file == DefaultOutputFile(inp.output_path, inp.input_csv, n)
        lm0 == passes.manifest
        output_file_name0 == IF IsFault(lm0) THEN None ELSE DictGet(lm0, tag_file_name)
        \* None, a number, a list and a dict have no method replace
        name_raises == ~IsStr(output_file_name0)
        output_file_name ==
            IF name_raises THEN <<>>
            ELSE Replace(Replace(output_file_name0[2], <<"/">>, <<"-">>),
                         <<"\\">>, <<"-">>)
        named == PathJoin(inp.output_path, output_file_name)
        lm == IF IsFault(lm0) \/ name_raises THEN None ELSE DictDel(lm0, tag_file_name)
        output_file == IF named \in processed THEN named
                       ELSE RenameDuplicate(named, processed_lower, 1)
        grouped == group_lm # None
        \* output_array_parent.split(".") raises for a parent that is no str
        wrap_raises ==
            \/ output_array_parent # None /\ ~grouped /\ ~IsStr(output_array_parent)
            \/ output_array_parent = None /\ output_object_parent # None
               /\ ~IsStr(output_object_parent)
        doc == IF output_array_parent # None
               THEN IF grouped \/ wrap_raises THEN lm
                    ELSE Wrapped(output_array_parent, output_kind_parent, JList(<<lm>>))
               ELSE IF output_object_parent # None /\ ~wrap_raises
               THEN Wrapped(output_object_parent, output_kind_parent, lm)
               ELSE lm
        fault_at == IF IsFault(lm0) THEN "create_manifest_from_row"
                    ELSE IF name_raises THEN "output_file_name.replace"
                    ELSE IF wrap_raises THEN "split"
                    ELSE IF ~grouped /\ write_fails # "" THEN write_fails
                    ELSE ""
    IN  [passes |-> passes, fault_at |-> fault_at, default_file |-> default_file,
         named |-> named,
         output_file |-> IF IsFault(lm0) \/ name_raises THEN default_file
                         ELSE output_file,
         lm |-> lm, doc |-> doc,
         appended |-> grouped /\ ~IsFault(lm0) /\ ~name_raises]

\* The manifest of a row after each pass of create_manifest_from_row, called
\* with the locals of the run.
\* RowPasses as it would be were the row before materialized in root_template
\* itself and not in a deep copy of it
RowPasses_in_place(rows) ==
    Passes(IF IsDict(last.passes.substituted) THEN last.passes.substituted
           ELSE root_template,
           required_template, parameters_object,
           map_parameter_column, rows, inp.acl_viewer, inp.acl_owner, inp.legal_tag)

RowPasses(rows) ==
    Passes(root_template, required_template, parameters_object,
           map_parameter_column, rows, inp.acl_viewer, inp.acl_owner, inp.legal_tag)

History(kind, rows, r) ==
    [kind |-> kind, n |-> row_count + 1, row |-> rows, passes |-> r.passes,
     fault_at |-> r.fault_at, default_file |-> r.default_file,
     output_file |-> r.output_file, named |-> r.named, lm |-> r.lm, doc |-> r.doc,
     pre_files |-> files, pre_processed |-> processed,
     pre_processed_lower |-> processed_lower, pre_group |-> group_lm,
     pre_empty |-> empty_row_count]

\* The rows a CSV of the run may hold after its header.
RowsOf(i) == i.rows

\* One iteration of the loop for a row whose cells are all blank.
SkipEmptyRow ==
    /\ pc = "rows"
    /\ row_count < MaxRows
    /\ \E rows \in RowsOf(inp) :
          /\ IsEmptyRow(rows)
          /\ row_count' = row_count + 1
          /\ empty_row_count' = empty_row_count + 1
          /\ last' = History("empty", rows,
                        [passes |-> NoPasses, fault_at |-> "", default_file |-> <<>>,
                         named |-> <<>>, output_file |-> <<>>, lm |-> None,
                         doc |-> None])
          /\ tally' = [tally EXCEPT !.empty = @ + 1]
    /\ UNCHANGED <<inp, pc, setup_vars, group_lm, processed, processed_lower,
                   files, reported>>
    /\ UNCHANGED load_vars

\* the state after the try statement, or after its except clause, which
\* removes output_file
RowDone(rows, r) ==
    /\ row_count' = row_count + 1
    /\ group_lm' =
         IF r.appended
         THEN SetAt(group_lm, group_path,
                    JList(Append(GetAt(group_lm, group_path)[2], r.lm)))
         ELSE group_lm
    /\ files' =
         IF r.fault_at = "json.dump"
         THEN Removed(Written(files, r.output_file, Truncated), r.output_file)
         ELSE IF r.fault_at # "" THEN Removed(files, r.output_file)
         ELSE IF group_lm = None THEN Written(files, r.output_file, r.doc)
         ELSE files
    /\ processed' =
         IF r.fault_at = "" THEN processed \cup {r.output_file} ELSE processed
    /\ processed_lower' =
         IF r.fault_at = "" THEN processed_lower \cup {Lower(r.output_file)}
         ELSE processed_lower
    /\ last' = History(IF r.fault_at = "" THEN "ok" ELSE "fault", rows, r)
    /\ tally' = [returned |-> tally.returned
                                 + IF IsFault(r.passes.manifest) THEN 0 ELSE 1,
                  raised |-> tally.raised + IF r.fault_at = "" THEN 0 ELSE 1,
                  completed |-> tally.completed + IF r.fault_at = "" THEN 1 ELSE 0,
                  empty |-> tally.empty]

\* The try statement of a row once create_manifest_from_row has returned or
\* raised, for each answer of the environment to open() and json.dump().
RowTried(rows, passes) ==
    \E write_fails \in {"", "open", "json.dump"} :
        RowDone(rows, RowNamed(row_count + 1, write_fails, passes))

\* One iteration of the loop for a non-empty row: the try statement and its
\* except clause.
ProcessRow ==
    /\ pc = "rows"
    /\ row_count < MaxRows
    /\ \E rows \in RowsOf(inp) :
          /\ ~IsEmptyRow(rows)
          /\ RowTried(rows, RowPasses(rows))
    /\ UNCHANGED <<inp, pc, setup_vars, empty_row_count, reported>>
    /\ UNCHANGED load_vars

\* The end of the CSV file: the group document is written and the counts
\* are logged.
Finish ==
    /\ pc = "rows"
    /\ pc' = "done"
    /\ files' = IF group_lm # None THEN Written(files, output_group_filename, group_lm)
                ELSE files
    /\ reported' = [reported EXCEPT !.generated = Cardinality(processed),
                                    !.skipped = empty_row_count]
    /\ UNCHANGED <<inp, setup_vars, group_lm, row_count, processed, processed_lower,
                   empty_row_count, last, tally>>
    /\ UNCHANGED load_vars

--------------------------------------------------------------------------
(* The runs checked: template files, CSV headers and candidate rows        *)

Text_f == <<"{","{","f","}","}">>
Text_x == <<"{","{","x","}","}">>
Text_y == <<"{","{","y","}","}">>
Text_z == <<"{","{","z","}","}">>

\* {"n": "int({{x}})"}
Template_plain ==
    JDict(<<Item(<<"n">>, JStr(<<"i","n","t","(","{","{","x","}","}",")">>))>>)

\* {"$filename": "{{f}}", "n": "int({{x}})"}
Template_name ==
    JDict(<<Item(tag_file_name, JStr(Text_f)),
            Item(<<"n">>, JStr(<<"i","n","t","(","{","{","x","}","}",")">>))>>)

\* Template_name with "$kind_parent": "K"
Template_kind == DictSet(Template_name, tag_kind_parent, JStr(<<"K">>))

\* {"$filename": "{{f}}", "a": "{{x}}", "b": {"c": "{{y}}"}}
Template_prune ==
    JDict(<<Item(tag_file_name, JStr(Text_f)),
            Item(<<"a">>, JStr(Text_x)),
            Item(<<"b">>, JDict(<<Item(<<"c">>, JStr(Text_y))>>))>>)

\* {"a": "{{x}}", "b": {"c": "{{y}}"}}
Template_pruned_branch ==
    JDict(<<Item(<<"a">>, JStr(Text_x)),
            Item(<<"b">>, JDict(<<Item(<<"c">>, JStr(Text_y))>>))>>)

\* {"$filename": "{{f}}", "a": "{{x}}", "l": ["{{y}}", "k"],
\*  "m": [["{{y}}"], {"z": "{{y}}"}, {}], "e": {"d": []}, "s": "u {{y}} w"}
Template_prune_lists ==
    JDict(<<Item(tag_file_name, JStr(Text_f)),
            Item(<<"a">>, JStr(Text_x)),
            Item(<<"l">>, JList(<<JStr(Text_y), JStr(<<"k">>)>>)),
            Item(<<"m">>, JList(<<JList(<<JStr(Text_y)>>),
                                  JDict(<<Item(<<"z">>, JStr(Text_y))>>),
                                  JDict(<<>>)>>)),
            Item(<<"e">>, JDict(<<Item(<<"d">>, JList(<<>>))>>)),
            Item(<<"s">>, JStr(<<"u"," ">> \o Text_y \o <<" ","w">>))>>)

\* {"$filename": "{{f}}", "a": "{{x}}", "l": ["{{y}}", "k"], "e": [],
\*  "p": [["{{y}}"], {"q": "{{y}}"}], "c": ["k", "j"]}
Template_literal ==
    JDict(<<Item(tag_file_name, JStr(Text_f)),
            Item(<<"a">>, JStr(Text_x)),
            Item(<<"l">>, JList(<<JStr(Text_y), JStr(<<"k">>)>>)),
            Item(<<"e">>, JList(<<>>)),
            Item(<<"p">>, JList(<<JList(<<JStr(Text_y)>>),
                                  JDict(<<Item(<<"q">>, JStr(Text_y))>>)>>)),
            Item(<<"c">>, JList(<<JStr(<<"k">>), JStr(<<"j">>)>>))>>)

\* {"$filename": "{{f}}", "items": [{"v": "{{x}}"}]}
Template_items ==
    JDict(<<Item(tag_file_name, JStr(Text_f)),
            Item(<<"i","t","e","m","s">>,
                 JList(<<JDict(<<Item(<<"v">>, JStr(Text_x))>>)>>))>>)

\* {"$filename": "{{f}}", "items": [{"v": "{{y}}", "w": [{"z": "{{z}}"}]}]}
Template_nested ==
    JDict(<<Item(tag_file_name, JStr(Text_f)),
            Item(<<"i","t","e","m","s">>,
                 JList(<<JDict(<<Item(<<"v">>, JStr(Text_y)),
                                 Item(<<"w">>,
                                      JList(<<JDict(<<Item(<<"z">>, JStr(Text_z))>>)>>))
                               >>)>>))>>)

\* {"$filename": "{{f}}", "items": [{"v": "{{x}}", "k": "c"}]}
Template_items_const ==
    JDict(<<Item(tag_file_name, JStr(Text_f)),
            Item(<<"i","t","e","m","s">>,
                 JList(<<JDict(<<Item(<<"v">>, JStr(Text_x)),
                                 Item(<<"k">>, JStr(<<"c">>))>>)>>))>>)

\* {"$filename": "{{f}}", "n": leaf}
Template_leaf(leaf) ==
    JDict(<<Item(tag_file_name, JStr(Text_f)), Item(<<"n">>, JStr(leaf))>>)

\* the leaves "int({{x}})", " int({{x}})", "int({{x}}) " and "bool({{x}})"
Leaves_coerce ==
    {Chars_int \o <<"(">> \o Text_x \o <<")">>,
     <<" ">> \o Chars_int \o <<"(">> \o Text_x \o <<")">>,
     Chars_int \o <<"(">> \o Text_x \o <<")", " ">>,
     Chars_bool \o <<"(">> \o Text_x \o <<")">>}

\* {"$filename": "{{f}}", "a": "{{x}}", "b": "p{{x}}{{y}}{{x}}",
\*  "c": {"d": "{{y}}"}, "e": "w"}
Template_scalar ==
    JDict(<<Item(tag_file_name, JStr(Text_f)),
            Item(<<"a">>, JStr(Text_x)),
            Item(<<"b">>, JStr(<<"p">> \o Text_x \o Text_y \o Text_x)),
            Item(<<"c">>, JDict(<<Item(<<"d">>, JStr(Text_y))>>)),
            Item(<<"e">>, JStr(<<"w">>))>>)

\* {"$filename": "{{f}}", "a": "{{x}}", "l": [{"u": "1"}, {"u": "2"}],
\*  "m": {"k": "1"}}
Template_filled ==
    JDict(<<Item(tag_file_name, JStr(Text_f)),
            Item(<<"a">>, JStr(Text_x)),
            Item(<<"l">>, JList(<<JDict(<<Item(<<"u">>, JStr(<<"1">>))>>),
                                  JDict(<<Item(<<"u">>, JStr(<<"2">>))>>)>>)),
            Item(<<"m">>, JDict(<<Item(<<"k">>, JStr(<<"1">>))>>))>>)

\* {"a": "Z", "legal": {"legaltags": [], "s": "d"}, "l": [{"u": "9", "w": "8"}],
\*  "m": {"k": "9", "j": "2"}, "$o": "p", "$m": {"q": ["3"]}}
Required_same ==
    JDict(<<Item(<<"a">>, JStr(<<"Z">>)),
            Item(Chars_legal, JDict(<<Item(Chars_legaltags, JList(<<>>)),
                                      Item(<<"s">>, JStr(<<"d">>))>>)),
            Item(<<"l">>, JList(<<JDict(<<Item(<<"u">>, JStr(<<"9">>)),
                                          Item(<<"w">>, JStr(<<"8">>))>>)>>)),
            Item(<<"m">>, JDict(<<Item(<<"k">>, JStr(<<"9">>)),
                                  Item(<<"j">>, JStr(<<"2">>))>>)),
            Item(<<"$","o">>, JStr(<<"p">>)),
            Item(<<"$","m">>, JDict(<<Item(<<"q">>, JList(<<JStr(<<"3">>)>>))>>))>>)

\* {"a": {"b": "c"}, "l": {"u": "9"}, "m": ["k"], "n": 1}
Required_other ==
    JDict(<<Item(<<"a">>, JDict(<<Item(<<"b">>, JStr(<<"c">>))>>)),
            Item(<<"l">>, JDict(<<Item(<<"u">>, JStr(<<"9">>))>>)),
            Item(<<"m">>, JList(<<JStr(<<"k">>)>>)),
            Item(<<"n">>, JInt(1))>>)

Key_a_oneOf == <<"a">> \o Chars_oneOf \o <<"1","$","$">>
Key_a_anyOf == <<"a">> \o Chars_anyOf \o <<"2","$","$">>

\* {"$filename": "{{f}}", "a$$_anyOf_2$$": "{{y}}", "a$$_oneOf_1$$": "{{x}}",
\*  "m": {"b$$_oneOf_10$$": [{"c$$_anyOf_1$$": 1}, {}]}}
Template_tags ==
    JDict(<<Item(tag_file_name, JStr(Text_f)),
            Item(Key_a_anyOf, JStr(Text_y)),
            Item(Key_a_oneOf, JStr(Text_x)),
            Item(<<"m">>,
                 JDict(<<Item(<<"b">> \o Chars_oneOf \o <<"1","0","$","$">>,
                              JList(<<JDict(<<Item(<<"c">> \o Chars_anyOf \o <<"1","$","$">>,
                                                   JInt(1))>>),
                                      JDict(<<>>)>>))>>))>>)

\* {"$filename": "{{f}}", "a": held, "a$$_oneOf_1$$": "{{x}}"}
Template_tagged(held) ==
    JDict(<<Item(tag_file_name, JStr(Text_f)),
            Item(<<"a">>, held),
            Item(Key_a_oneOf, JStr(Text_x))>>)

\* {"$filename": "{{f}}", "items": [{"v": "{{x}}", "w": "{{x}}"}]}
Template_items_twice ==
    JDict(<<Item(tag_file_name, JStr(Text_f)),
            Item(<<"i","t","e","m","s">>,
                 JList(<<JDict(<<Item(<<"v">>, JStr(Text_x)),
                                 Item(<<"w">>, JStr(Text_x))>>)>>))>>)

\* {"$filename": "{{f}}", "a": "{{x}}", "items": [{"v": "{{x}}"}]}
Template_scalar_items ==
    JDict(<<Item(tag_file_name, JStr(Text_f)),
            Item(<<"a">>, JStr(Text_x)),
            Item(<<"i","t","e","m","s">>,
                 JList(<<JDict(<<Item(<<"v">>, JStr(Text_x))>>)>>))>>)

\* {"$filename": "{{f}}", "items": [{"v": "{{x}}"}], "a": "{{x}}"}
Template_items_scalar ==
    JDict(<<Item(tag_file_name, JStr(Text_f)),
            Item(<<"i","t","e","m","s">>,
                 JList(<<JDict(<<Item(<<"v">>, JStr(Text_x))>>)>>)),
            Item(<<"a">>, JStr(Text_x))>>)

\* {"$filename": "{{f}}", "acl": {"viewers": ["t"], "z": "{{x}}"}, "n": "1"}
Template_acl ==
    JDict(<<Item(tag_file_name, JStr(Text_f)),
            Item(Chars_acl, JDict(<<Item(Chars_viewers, JList(<<JStr(<<"t">>)>>)),
                                    Item(<<"z">>, JStr(Text_x))>>)),
            Item(<<"n">>, JStr(<<"1">>))>>)

\* {"acl": {"owners": ["r"], "q": "d"}}
Required_acl ==
    JDict(<<Item(Chars_acl, JDict(<<Item(Chars_owners, JList(<<JStr(<<"r">>)>>)),
                                    Item(<<"q">>, JStr(<<"d">>))>>))>>)

\* {"$filename": "{{f}}", "legal": {"legaltags": ["old"], "status": "{{x}}"}}
Template_legal ==
    JDict(<<Item(tag_file_name, JStr(Text_f)),
            Item(Chars_legal,
                 JDict(<<Item(Chars_legaltags, JList(<<JStr(<<"o","l","d">>)>>)),
                         Item(<<"s","t","a","t","u","s">>, JStr(Text_x))>>))>>)

\* {"$filename": "{{f}}", "legal": {"status": "{{x}}"}}
Template_legal_status ==
    JDict(<<Item(tag_file_name, JStr(Text_f)),
            Item(Chars_legal,
                 JDict(<<Item(<<"s","t","a","t","u","s">>, JStr(Text_x))>>))>>)

\* {"legal": {"legaltags": [], "otherRelevantDataCountries": ["XX"], "s": "d"},
\*  "e": {}, "g": {"h": []}, "acl": {"owners": ["r"], "q": {}}}
Required_containers ==
    JDict(<<Item(Chars_legal,
                 JDict(<<Item(Chars_legaltags, JList(<<>>)),
                         Item(Chars_countries, JList(<<JStr(<<"X","X">>)>>)),
                         Item(<<"s">>, JStr(<<"d">>))>>)),
            Item(<<"e">>, JDict(<<>>)),
            Item(<<"g">>, JDict(<<Item(<<"h">>, JList(<<>>))>>)),
            Item(Chars_acl, JDict(<<Item(Chars_owners, JList(<<JStr(<<"r">>)>>)),
                                    Item(<<"q">>, JDict(<<>>))>>))>>)

\* the reserved directive keys a template file may hold at its top level,
\* with a value for each
Directives ==
    <<Item(<<"$","i","d">>, JStr(<<"I">>)),
      Item(tag_schema_id, JStr(<<"S">>)),
      Item(tag_array_parent, JStr(<<"D">>)),
      Item(tag_object_parent, JStr(<<"O">>)),
      Item(tag_kind_parent, JStr(<<"K">>)),
      Item(tag_required_template, JDict(<<Item(<<"r">>, JStr(<<"1">>))>>)),
      Item(tag_required_template, JStr(<<"n">>))>>

\* Template_name with directive d in front
Template_directive(d) == JDict(<<Directives[d]>> \o Template_name[2])

\* Template_name with every directive but $required_template in front
Template_directives == JDict(SubSeq(Directives, 1, 5) \o Template_name[2])

Name_A == <<"A",".","j","s","o","n">>
Name_a == <<"a",".","j","s","o","n">>
Name_a2 == <<"a","_","2",".","j","s","o","n">>

Header_x == <<<<"x">>>>
Header_fx == <<<<"f">>, <<"x">>>>
Header_fxy == <<<<"f">>, <<"x">>, <<"y">>>>

\* the header f, x_1, ..., x_n
Header_items(n) == <<<<"f">>>> \o [i \in 1..n |-> <<"x","_">> \o StrOfNat(i)]

\* every row with cell c drawn from cells[c]
RECURSIVE RowsFrom(_)
RowsFrom(cells) ==
    IF cells = <<>> THEN {<<>>}
    ELSE {<<v>> \o rest : v \in Head(cells), rest \in RowsFrom(Tail(cells))}

BlankRows == {<<>>, <<<<" ">>, <<>>>>}

Rows_name ==
    RowsFrom(<<{<<>>, Name_A, Name_a, Name_a2}, {<<"5">>}>>)
    \cup {<<Name_A, <<"7">>>>, <<Name_A, <<"z">>>>, <<Name_A>>}
    \cup BlankRows

Rows_wrap ==
    RowsFrom(<<{<<>>, Name_A, Name_a}, {<<"5">>}>>) \cup {<<Name_A, <<"z">>>>, <<>>}

Rows_prune == RowsFrom(<<{Name_A}, {<<>>, <<"1">>}, {<<>>, <<"2">>}>>)

\* the names d/A\b.json and /A.json
Name_nested == <<"d","/","A","\\","b",".","j","s","o","n">>
Name_rooted == <<"/","A",".","j","s","o","n">>

Rows_slashes == RowsFrom(<<{Name_nested, Name_rooted, Name_A}, {<<"5">>}>>)

\* headers in which a column name occurs twice: f,x,x  f,x,X  f,f,x
\* f,x_1,x_1  f,x_1,x_3,x_3  f,x,y,y
Headers_twice ==
    {<<<<"f">>, <<"x">>, <<"x">>>>,
     <<<<"f">>, <<"x">>, <<"X", " ">>>>,
     <<<<"f">>, <<"f">>, <<"x">>>>,
     <<<<"f">>, <<"x","_","1">>, <<"x","_","1">>>>,
     <<<<"f">>, <<"x","_","1">>, <<"x","_","3">>, <<"x","_","3">>>>,
     <<<<"f">>, <<"x">>, <<"y">>, <<"y">>>>}

\* the header f, y_1, y_2, z_1_1, z_2_2, z_1_3
Header_nested ==
    <<<<"f">>, <<"y","_","1">>, <<"y","_","2">>, <<"z","_","1","_","1">>,
      <<"z","_","2","_","2">>, <<"z","_","1","_","3">>>>

\* the rows A.json,p,q,1,2,3 and a.json,,q,,2, and A.json,p,,,,9
Rows_nested ==
    {<<Name_A, <<"p">>, <<"q">>, <<"1">>, <<"2">>, <<"3">>>>,
     <<Name_a, <<>>, <<"q">>, <<>>, <<"2">>, <<>>>>,
     <<Name_A, <<"p">>, <<>>, <<>>, <<>>, <<"9">>>>}

\* the header f, z_1, y_1_1, z_01_1, z_0_1, z_1_1_1: no column of an array
\* parameter of the nested template
Header_unindexed ==
    <<<<"f">>, <<"z","_","1">>, <<"y","_","1","_","1">>, <<"z","_","0","1","_","1">>,
      <<"z","_","0","_","1">>, <<"z","_","1","_","1","_","1">>>>

\* the header f, z_2_1, " Y_2 "
Header_sparse == <<<<"f">>, <<"z","_","2","_","1">>, <<" ","Y","_","2"," ">>>>

Rows_twice == {<<Name_A, <<"5">>, <<"6">>, <<"7">>>>}

Rows_fill == RowsFrom(<<{Name_A, Name_a}, {<<>>, <<"5">>}>>)

\* cells of plain text, with white space around, blank, and of placeholder text
Rows_scalar ==
    RowsFrom(<<{Name_A}, {<<>>, <<"5">>, <<" ","5"," ">>, Text_y}, {<<>>, <<"6">>}>>)

Rows_coerce ==
    RowsFrom(<<{Name_A}, {<<>>, <<"5">>, <<"1">>, <<"Y","E","S">>, <<"n","o">>}>>)

\* the text of column x_i in a row that fills it
ItemValue(i) == <<"v">> \o StrOfNat(i)

\* rows for Header_items(n): every x_i with its own value, or all but one
Rows_items(n) ==
    {<<Name_A>> \o [i \in 1..n |-> IF i = blank THEN <<>> ELSE ItemValue(i)] :
        blank \in 0..n}

\* the most columns x_1..x_n of a header
MaxItems == 3

Input(id, template_json, header, rows) ==
    [id |-> id, template_json |-> template_json, header |-> header, rows |-> rows,
     input_csv |-> <<"i","n","/","a",".","c","s","v">>, output_path |-> <<"o">>,
     required_template |-> None, array_parent |-> None, object_parent |-> None,
     group_filename |-> None, acl_viewer |-> None, acl_owner |-> None,
     legal_tag |-> None]

Parent_1 == JStr(<<"D">>)
Parent_2 == JStr(<<"p",".","D">>)
Parent_3 == JStr(<<"p",".","q",".","D">>)
Parents == {Parent_1, Parent_2, Parent_3}

Inputs ==
    {Input("name", Template_name, Header_fx, Rows_name)}
    \cup {Input("plain", Template_plain, Header_fx, Rows_wrap)}
    \cup {[Input("array_parent", t, Header_fx, Rows_wrap) EXCEPT !.array_parent = p] :
             t \in {Template_name, Template_kind}, p \in Parents}
    \cup {[Input("object_parent", t, Header_fx, Rows_wrap) EXCEPT !.object_parent = p] :
             t \in {Template_name, Template_kind}, p \in Parents}
    \cup {[Input("group", t, Header_fx, Rows_wrap)
              EXCEPT !.array_parent = p, !.group_filename = JStr(<<"g">>)] :
             t \in {Template_name, Template_kind}, p \in Parents}
    \cup {Input("directive", Template_directive(d), Header_fx, Rows_wrap) :
             d \in 1..Len(Directives)}
    \cup {Input("directives", Template_directives, Header_fx, Rows_wrap)}
    \cup {Input("prune", t, h, Rows_prune) :
             t \in {Template_prune, Template_prune_lists}, h \in {Header_fx, Header_fxy}}
    \cup {Input("prune", Template_pruned_branch, Header_x, {<<<<"1">>>>, <<<<"2">>>>})}
    \cup {Input("items", Template_items, Header_items(n), Rows_items(n)) :
             n \in 1..MaxItems}
    \cup {Input("literal", Template_literal, h,
                 {<<Name_A, <<"1">>, <<"2">>>>, <<Name_a, <<>>, <<"2">>>>}) :
             h \in {Header_fxy, <<<<"f">>, <<"x">>, <<"y","_","1">>>>}}
    \cup {Input("nested", Template_nested, Header_nested, Rows_nested)}
    \cup {Input("nested", Template_nested, Header_unindexed,
                 {<<Name_A, <<"1">>, <<"2">>, <<"3">>, <<"4">>, <<"5">>>>})}
    \cup {Input("nested", Template_nested, Header_sparse,
                 {<<Name_A, <<"1">>, <<"2">>>>})}
    \cup {Input("nested", Template_nested, <<<<"f">>>>, {<<Name_A>>})}
    \cup {Input("stubs", Template_items_const, Header_items(2), Rows_items(2))}
    \cup {[Input("order", t, Header_fx, {<<Name_A, <<"5">>>>, <<Name_a, <<>>>>})
              EXCEPT !.required_template = Required_containers,
                     !.acl_viewer = viewer, !.legal_tag = tag] :
             t \in {Template_legal, Template_legal_status},
             viewer \in {None, JStr(<<"V">>)}, tag \in {None, JStr(<<"T">>)}}
    \cup {Input("coerce", Template_leaf(leaf), Header_fx, Rows_coerce) :
             leaf \in Leaves_coerce}
    \cup {Input("scalar", Template_scalar, Header_fxy, Rows_scalar)}
    \cup {Input("slashes", Template_name, Header_fx, Rows_slashes)}
    \cup {[Input("slashes", Template_name, Header_fx, Rows_slashes)
              EXCEPT !.array_parent = Parent_1, !.group_filename = JStr(<<"g">>)]}
    \cup {[Input("legal", t, Header_fx, {<<Name_A, <<"5">>>>, <<Name_a, <<>>>>})
              EXCEPT !.legal_tag = JStr(<<"T">>)] :
             t \in {Template_legal, Template_legal_status, Template_name}}
    \cup {[Input("acl", tr[1], Header_fx, {<<Name_A, <<"5">>>>, <<Name_a, <<>>>>})
              EXCEPT !.required_template = tr[2], !.acl_viewer = viewer,
                     !.acl_owner = owner] :
             tr \in {<<Template_acl, None>>, <<Template_acl, Required_acl>>,
                     <<Template_name, None>>},
             viewer \in {None, JStr(<<"V">>)},
             owner \in {None, JStr(<<>>), JStr(<<"W">>)}}
    \cup {Input("rebound", t, h, {<<Name_A, <<"5">>, <<"6">>>>}) :
             t \in {Template_items_twice, Template_scalar_items, Template_items_scalar},
             h \in {Header_fx, Header_items(1), <<<<"f">>, <<"x">>, <<"x","_","1">>>>}}
    \cup {Input("twice", t, h, Rows_twice) :
             t \in {Template_name, Template_items}, h \in Headers_twice}
    \cup {Input("tags", t, Header_fxy, Rows_prune) :
             t \in {Template_tags, Template_tagged(JStr(<<"k">>)), Template_tagged(None)}}
    \cup {[Input("required", Template_filled, Header_fx, Rows_fill)
              EXCEPT !.required_template = r] : r \in {Required_same, Required_other}}

\* no call of manifest_ingest
NoCall == [data_type |-> "", batch_size |-> 1, data_objects |-> <<>>, retries |-> 0]

LoadOff ==
    /\ call = NoCall
    /\ lpc = "off"
    /\ obj = 1
    /\ rec = 1
    /\ batch_objects = <<>>
    /\ final = FALSE
    /\ retry = 0
    /\ batches = <<>>
    /\ events = <<>>
    /\ log = <<>>

Init ==
    /\ LoadOff
    /\ inp \in Inputs
    /\ pc = "start"
    /\ root_template = None
    /\ required_template = None
    /\ output_array_parent = None
    /\ output_object_parent = None
    /\ output_kind_parent = None
    /\ group_lm = None
    /\ group_path = <<>>
    /\ output_group_filename = <<>>
    /\ parameters_object = <<>>
    /\ map_parameter_column = <<>>
    /\ row_count = 0
    /\ processed = {}
    /\ processed_lower = {}
    /\ empty_row_count = 0
    /\ files = NoFiles
    /\ reported = [error |-> "", generated |-> -1, skipped |-> -1]
    /\ last = NoLast
    /\ tally = [returned |-> 0, raised |-> 0, completed |-> 0, empty |-> 0]

Next == Setup \/ SkipEmptyRow \/ ProcessRow \/ Finish

Spec == Init /\ [][Next]_vars

--------------------------------------------------------------------------
(* load.py: manifest_ingest, send_batch_request and send_request           *)

DATA_LOAD_OK_RESPONSE_CODES == {200}
BAD_TOKEN_RESPONSE_CODES == {400, 401, 403, 500}

\* the most data objects of a call, the greatest batch size and the greatest
\* number of retries of the config
MaxObjects == 3
MaxBatch == 3
MaxRetries == 3

\* What requests.post does: it returns a response, whose body is the JSON of
\* a workflow with a runId or is not JSON, or raises a RequestException.
Response(status_code, json) ==
    [raised |-> FALSE, status_code |-> status_code, json |-> json]

RequestException == [raised |-> TRUE, status_code |-> 0, json |-> FALSE]

Responses ==
    {Response(200, TRUE), Response(200, FALSE), Response(401, FALSE),
     Response(503, FALSE), RequestException}

\* the events of a send_request
Posted(status_code) == <<"post", status_code>>
Slept == <<"sleep", 0>>
Logged == <<"log", 0>>

SeqsUpTo(S, n) == UNION {[1..k -> S] : k \in 0..n}

Records == {JStr(<<"a">>), JStr(<<"b">>)}

\* the record lists of the MasterData data objects checked
RecordLists == {<<>>, <<JStr(<<"a">>)>>, <<JStr(<<"a">>), JStr(<<"b">>)>>}

\* The calls checked: data objects that are records, and for MasterData
\* data objects that are lists of records.
Calls ==
    {[data_type |-> "ReferenceData", batch_size |-> b, data_objects |-> d,
      retries |-> r] :
        b \in 1..MaxBatch, d \in SeqsUpTo(Records, MaxObjects), r \in 0..MaxRetries}
    \cup
    {[data_type |-> "MasterData", batch_size |-> b, data_objects |-> d,
      retries |-> r] :
        b \in 1..MaxBatch,
        d \in SeqsUpTo({JList(l) : l \in RecordLists}, MaxObjects - 1),
        r \in 0..MaxRetries}

\* send_batch_request(batch_objects, is_wpc, data_type): the request is made
\* of the batch and send_request is entered; range(retries) is empty when
\* retries is not positive.
send_batch_request(batch, is_final) ==
    /\ batch_objects' = batch
    /\ batches' = Append(batches, batch)
    /\ final' = is_final
    /\ retry' = 0
    /\ events' = <<>>
    /\ lpc' = IF call.retries > 0 THEN "send" ELSE "sent"
    /\ UNCHANGED log

\* "Send any remaining records in the final batch": whether a batch is sent
\* after the loop
RemainderSent_never(batch) == FALSE

RemainderSent(batch) == batch # <<>>

\* One iteration of the loops of manifest_ingest: the next record of a
\* MasterData data object (or the end of that data object), or the next data
\* object of another type, is appended, and the batch is sent when it is full
\* or, for the other types, when the data object equals the last one.
IngestStep ==
    /\ lpc = "loop"
    /\ obj <= Len(call.data_objects)
    /\ LET data_object == call.data_objects[obj]
       IN  IF call.data_type = "MasterData"
           THEN IF rec > Len(data_object[2])
                THEN /\ obj' = obj + 1
                     /\ rec' = 1
                     /\ UNCHANGED <<lpc, batch_objects, final, retry, batches,
                                    events, log>>
                ELSE /\ rec' = rec + 1
                     /\ obj' = obj
                     /\ IF Len(batch_objects) + 1 = call.batch_size
                        THEN send_batch_request(
                                 Append(batch_objects, data_object[2][rec]), FALSE)
                        ELSE /\ batch_objects' =
                                    Append(batch_objects, data_object[2][rec])
                             /\ UNCHANGED <<lpc, final, retry, batches, events, log>>
           ELSE /\ obj' = obj + 1
                /\ rec' = rec
                /\ IF \/ Len(batch_objects) + 1 = call.batch_size
                      \/ data_object = call.data_objects[Len(call.data_objects)]
                   THEN send_batch_request(Append(batch_objects, data_object), FALSE)
                   ELSE /\ batch_objects' = Append(batch_objects, data_object)
                        /\ UNCHANGED <<lpc, final, retry, batches, events, log>>
    /\ UNCHANGED <<call, csv_vars>>

\* The end of the loop over data_objects: the remaining records are sent, or
\* manifest_ingest returns.
IngestEnd ==
    /\ lpc = "loop"
    /\ obj > Len(call.data_objects)
    /\ IF RemainderSent(batch_objects)
       THEN send_batch_request(batch_objects, TRUE)
       ELSE /\ lpc' = "returned"
            /\ UNCHANGED <<batch_objects, final, retry, batches, events, log>>
    /\ UNCHANGED <<call, obj, rec, csv_vars>>

\* whether an attempt that failed is followed by time.sleep: as it would be
\* were the status not looked at
SleepsAfter_any(status_code, attempt, retries) == attempt + 1 < retries

\* whether an attempt that failed is followed by time.sleep
SleepsAfter(status_code, attempt, retries) ==
    /\ attempt + 1 < retries
    /\ status_code \notin BAD_TOKEN_RESPONSE_CODES

\* One iteration of the loop of send_request.  A RequestException makes it
\* call sys.exit(2).  response.json() raises for a body that is not JSON:
\* a requests.JSONDecodeError, which is a RequestException, or with older
\* versions of requests a ValueError, which send_request does not catch.
Post ==
    /\ lpc = "send"
    /\ retry < call.retries
    /\ \E response \in Responses :
          IF response.raised
          THEN /\ lpc' = "exited"
               /\ UNCHANGED <<retry, events, log>>
          ELSE IF response.status_code \in DATA_LOAD_OK_RESPONSE_CODES
          THEN /\ events' = IF response.json
                            THEN events \o <<Posted(response.status_code), Logged>>
                            ELSE Append(events, Posted(response.status_code))
               /\ log' = IF response.json THEN Append(log, Len(batches)) ELSE log
               /\ lpc' \in IF response.json THEN {"sent"} ELSE {"exited", "raised"}
               /\ UNCHANGED retry
          ELSE /\ events' = IF SleepsAfter(response.status_code, retry, call.retries)
                            THEN events \o <<Posted(response.status_code), Slept>>
                            ELSE Append(events, Posted(response.status_code))
               /\ retry' = retry + 1
               /\ lpc' = IF retry + 1 < call.retries THEN "send" ELSE "sent"
               /\ UNCHANGED log
    /\ UNCHANGED <<call, obj, rec, batch_objects, final, batches, csv_vars>>

\* send_request and send_batch_request return: manifest_ingest empties
\* batch_objects and goes on, or returns after the final batch.
SendReturn ==
    /\ lpc = "sent"
    /\ batch_objects' = <<>>
    /\ lpc' = IF final THEN "returned" ELSE "loop"
    /\ UNCHANGED <<call, obj, rec, final, retry, batches, events, log, csv_vars>>

\* no run of create_manifest_from_csv
CsvOff ==
    /\ inp = Input("off", None, <<>>, {})
    /\ pc = "off"
    /\ root_template = None
    /\ required_template = None
    /\ output_array_parent = None
    /\ output_object_parent = None
    /\ output_kind_parent = None
    /\ group_lm = None
    /\ group_path = <<>>
    /\ output_group_filename = <<>>
    /\ parameters_object = <<>>
    /\ map_parameter_column = <<>>
    /\ row_count = 0
    /\ processed = {}
    /\ processed_lower = {}
    /\ empty_row_count = 0
    /\ files = NoFiles
    /\ reported = [error |-> "", generated |-> -1, skipped |-> -1]
    /\ last = NoLast
    /\ tally = [returned |-> 0, raised |-> 0, completed |-> 0, empty |-> 0]

InitLoad ==
    /\ CsvOff
    /\ call \in Calls
    /\ lpc = "loop"
    /\ obj = 1
    /\ rec = 1
    /\ batch_objects = <<>>
    /\ final = FALSE
    /\ retry = 0
    /\ batches = <<>>
    /\ events = <<>>
    /\ log = <<>>

NextLoad == IngestStep \/ IngestEnd \/ Post \/ SendReturn

SpecLoad == InitLoad /\ [][NextLoad]_vars

--------------------------------------------------------------------------
(* Properties of create_manifest_from_csv                                  *)

\* C1: a data row whose try statement raised, in create_manifest_from_row or
\* after it up to json.dump, aborts only that row: processed and
\* processed_lower are what they were before the row (so the row is not
\* counted), the group document is what it was, no file is left under the
\* row's output_file, and the loop goes on (the run is not aborted, and at
\* the end of the file it reports).
C1_FaultAbortsOnlyTheRow ==
    last.kind = "fault" =>
        /\ processed = last.pre_processed
        /\ processed_lower = last.pre_processed_lower
        /\ group_lm = last.pre_group
        /\ last.output_file \notin DOMAIN files
        /\ \A q \in DOMAIN files : files[q] # Truncated
        /\ pc \in {"rows", "done"}
        /\ pc = "done" => reported.generated = Cardinality(last.pre_processed)

\* the second row's json.dump raised after the first row was written
C1_Witness ==
    /\ last.kind = "fault"
    /\ last.fault_at = "json.dump"
    /\ last.n = 2
    /\ Cardinality(processed) = 1
    /\ DOMAIN files # {}

\* C2: a non-empty data row whose materialized manifest has no $filename is
\* written (when no group file is configured) under <csvBaseName>_<n>.json
\* in the output directory, n the 1-based number of the data row, and that
\* name is among the processed names, so the row is counted.
C2_DefaultNameWritten ==
    ( /\ last.kind \in {"ok", "fault"}
      /\ pc = "rows"
      /\ last.pre_group = None
      /\ IsDict(last.passes.manifest)
      /\ ~DictHas(last.passes.manifest, tag_file_name) )
    => /\ last.kind = "ok"
       /\ last.output_file = last.default_file
       /\ last.default_file \in DOMAIN files
       /\ files[last.default_file] = last.doc
       /\ last.default_file \in processed

\* C3: a row whose output name equals, ignoring case, a name an earlier row
\* was written under (the two names exactly equal included) is written under
\* another name, the name with _<n> appended before its extension, and every
\* file written before it is left as it was; the names of the files written
\* are pairwise distinct ignoring case.
C3_CollisionsRenamed ==
    /\ ( /\ last.kind = "ok"
         /\ pc = "rows"
         /\ last.pre_group = None
         /\ Lower(last.named) \in last.pre_processed_lower )
       => /\ last.output_file # last.named
          /\ \E n \in 1..MaxRows :
                last.output_file =
                    DropLast(last.named, Len(Chars_json))
                    \o <<"_">> \o StrOfNat(n) \o Chars_json
          /\ \A q \in DOMAIN last.pre_files :
                q \in DOMAIN files /\ files[q] = last.pre_files[q]
    /\ \A q1, q2 \in DOMAIN files : Lower(q1) = Lower(q2) => q1 = q2

\* C4: at the final reporting step the generated count is the number of
\* non-empty data rows whose materialization did not fault, the skipped count
\* is the number of all-blank data rows, and generated + skipped + faulted
\* rows is the number of data rows.
C4_CountsExact ==
    pc = "done" =>
        /\ reported.generated = tally.returned
        /\ reported.skipped = tally.empty
        /\ reported.generated + reported.skipped + (row_count - tally.returned - tally.empty)
             = row_count

\* a cell of white space only
C5_IsBlank(cell) == \A k \in 1..Len(cell) : IsSpace(cell[k])

\* C5: a data row whose cells are all blank, or that has no cells, adds one
\* to the count of skipped empty rows and changes nothing else: no manifest
\* is materialized for it and no row is counted as processed or faulted, no
\* file is written or removed, and the processed names and the group
\* document are what they were.  Rows are taken in file order: each is the
\* next one, row_count its number.
C5_EmptyRowOnlyCounted ==
    ( /\ pc = "rows"
      /\ last.kind # "none"
      /\ \A c \in 1..Len(last.row) : C5_IsBlank(last.row[c]) )
    => /\ empty_row_count = last.pre_empty + 1
       /\ last.passes = NoPasses
       /\ files = last.pre_files
       /\ processed = last.pre_processed
       /\ processed_lower = last.pre_processed_lower
       /\ group_lm = last.pre_group
       /\ row_count = last.n
       /\ tally.empty = empty_row_count
       /\ tally.empty + tally.raised + tally.completed = row_count

\* a row of one cell of white space and one empty cell was skipped after a
\* row was written
C5_Witness ==
    /\ pc = "rows"
    /\ last.kind = "empty"
    /\ last.row = <<<<" ">>, <<>>>>
    /\ last.n = 2
    /\ DOMAIN files # {}
    /\ empty_row_count = 1

\* C6: with a group filename no file is written for a row; one file, the
\* group file, is written at the end of the CSV file; the array at its
\* array-parent path holds the manifest of every row materialized, in row
\* order (each such row appends its manifest), and kind is the kind parent
\* when there is one.
C6_GroupFileHoldsEveryManifest ==
    (inp.group_filename # None /\ pc \in {"rows", "done"}) =>
        /\ ( /\ pc = "rows"
             /\ last.kind \in {"ok", "fault"}
             /\ IsDict(last.passes.manifest) )
           => GetAt(group_lm, group_path)[2] =
                  Append(GetAt(last.pre_group, group_path)[2],
                         DictDel(last.passes.manifest, tag_file_name))
        /\ pc = "rows" => DOMAIN files = {}
        /\ pc = "done" =>
              /\ DOMAIN files = {output_group_filename}
              /\ Len(GetAt(files[output_group_filename], group_path)[2]) = tally.returned
              /\ output_kind_parent # None =>
                    DictGet(files[output_group_filename], Chars_kind) = output_kind_parent

\* inner under the keys p1, ..., pk, each but the last holding an object
RECURSIVE C7_Nest(_, _)
C7_Nest(parent_items, inner) ==
    IF Len(parent_items) = 1 THEN <<Item(parent_items[1], inner)>>
    ELSE <<Item(parent_items[1], JDict(C7_Nest(Tail(parent_items), inner)))>>

\* the document that wraps inner under the parent path, after kind
C7_Document(output_parent, kind, inner) ==
    JDict((IF kind # None THEN <<Item(Chars_kind, kind)>> ELSE <<>>)
          \o C7_Nest(Split(output_parent[2], "."), inner))

\* C7: for a parent path p1.p2...pk of any length the file of a row is its
\* manifest under nested objects p1..p(k-1) whose key pk holds [manifest]
\* for an array parent and manifest for an object parent; the group document
\* is built for the same array-parent path, and a group run over one row
\* writes the document the row alone is wrapped to.
C7_WrappingForAnyDepth ==
    /\ (inp.group_filename # None /\ IsStr(inp.array_parent)) => pc # "aborted"
    /\ (pc = "rows" /\ last.kind = "ok" /\ last.pre_group = None) =>
          files[last.output_file] =
              IF output_array_parent # None
              THEN C7_Document(output_array_parent, output_kind_parent, JList(<<last.lm>>))
              ELSE IF output_object_parent # None
              THEN C7_Document(output_object_parent, output_kind_parent, last.lm)
              ELSE last.lm
    /\ (pc = "done" /\ group_lm # None /\ row_count = 1 /\ last.kind = "ok") =>
          files[output_group_filename] =
              C7_Document(output_array_parent, output_kind_parent, JList(<<last.lm>>))

\* the reserved directive keys of a template file
C8_Reserved ==
    {<<"$","i","d">>, tag_required_template, tag_array_parent, tag_object_parent,
     tag_kind_parent}

\* C8: every reserved directive key in the template file is taken out of the
\* template before the parameters are indexed, and no error is raised for
\* it; none of these keys is in a manifest.
C8_DirectivesRemoved ==
    /\ reported.error # "del root_template[required_template_from_template]"
    /\ pc \in {"rows", "done"} =>
          \A key \in C8_Reserved : ~DictHas(root_template, key)
    /\ IsDict(last.passes.manifest) =>
          \A key \in C8_Reserved : ~DictHas(last.passes.manifest, key)

\* text holds {{ and, after it, }}
C9_Unresolved(text) ==
    \E a, b \in 1..(Len(text) - 1) :
        /\ a + 1 < b
        /\ SubSeq(text, a, a + 1) = parameter_start_delimiter
        /\ SubSeq(text, b, b + 1) = parameter_end_delimiter

\* val is a string with an unresolved placeholder or an empty container
C9_Pruneable(val) ==
    \/ IsStr(val) /\ C9_Unresolved(val[2])
    \/ (IsDict(val) \/ IsList(val)) /\ Len(val[2]) = 0

\* nothing inside j is a string with an unresolved placeholder or an empty
\* container
RECURSIVE C9_Clean(_)
C9_Clean(j) ==
    IF IsDict(j)
    THEN \A i \in 1..Len(j[2]) : ~C9_Pruneable(j[2][i][2]) /\ C9_Clean(j[2][i][2])
    ELSE IF IsList(j)
    THEN \A i \in 1..Len(j[2]) : ~C9_Pruneable(j[2][i]) /\ C9_Clean(j[2][i])
    ELSE TRUE

\* C9: a parameter with no CSV column bound, or whose cell is empty, raises
\* nothing in the substitution; after the prune pass no string leaf of the
\* manifest holds an unresolved {{...}} placeholder and no map or sequence
\* below the root is empty; {"a":"{{x}}","b":{"c":"{{y}}"}} with only x
\* bound, to 1, is pruned to {"a":"1"}.
C9_PrunedClean ==
    last.kind \in {"ok", "fault"} =>
        /\ inp.id = "prune" => IsDict(last.passes.substituted)
        /\ IsDict(last.passes.substituted) =>
              IsDict(last.passes.pruned) /\ C9_Clean(last.passes.pruned)
        /\ (inp.template_json = Template_pruned_branch /\ last.row = <<<<"1">>>>) =>
              last.passes.pruned = JDict(<<Item(<<"a">>, JStr(<<"1">>))>>)

\* the row of the example: b is emptied of c and removed
C9_Witness ==
    /\ inp.template_json = Template_pruned_branch
    /\ last.row = <<<<"1">>>>
    /\ DictHas(last.passes.substituted, <<"b">>)
    /\ ~DictHas(last.passes.pruned, <<"b">>)

\* C10: for the template {"items": [{"v": "{{x}}"}]}, the headers x_1..x_n
\* and a data row with n non-empty values, the array items of the manifest
\* has n elements and element i (0-based) is {"v": the value of column
\* x_(i+1)}.
C10_ArrayExpanded ==
    ( /\ inp.id = "items"
      /\ last.kind \in {"ok", "fault"}
      /\ \A c \in 1..Len(last.row) : last.row[c] # <<>> )
    => /\ IsDict(last.passes.manifest)
       /\ DictGet(last.passes.manifest, <<"i","t","e","m","s">>) =
             JList([i \in 1..(Len(inp.header) - 1) |->
                       JDict(<<Item(<<"v">>, JStr(last.row[i + 1]))>>)])

\* a row of MaxItems values was expanded
C10_Witness ==
    /\ inp.id = "items"
    /\ last.kind = "ok"
    /\ Len(inp.header) = MaxItems + 1
    /\ \A c \in 1..Len(last.row) : last.row[c] # <<>>
    /\ Len(DictGet(last.passes.manifest, <<"i","t","e","m","s">>)[2]) = MaxItems

\* C11: typed coercion.  A string leaf whose whole trimmed text is
\* int({{x}}) or bool({{x}}) is, in the manifest of a row, the coerced value
\* of the row's cell x: for int the integer the cell denotes, for bool true
\* when the cell is one of true/yes/y/t/1 ignoring case and false for every
\* other cell, a blank one included.
C11_Is(text, func) == Strip(text) = func \o <<"(">> \o Text_x \o <<")">>

C11_Value(text, cell) ==
    IF C11_Is(text, Chars_bool) THEN JBool(Lower(Strip(cell)) \in TrueTexts)
    ELSE JInt(NatOfDigits(Strip(cell)))

C11_Coerced ==
    (inp.id = "coerce" /\ last.kind \in {"ok", "fault"}) =>
        LET text == DictGet(inp.template_json, <<"n">>)[2]
            cell == last.row[2]
        IN  (C11_Is(text, Chars_bool) \/ AllDigits(Strip(cell))) =>
                /\ ~IsFault(last.passes.manifest)
                /\ DictGet(last.passes.manifest, <<"n">>) = C11_Value(text, cell)

\* C12: scalar substitution.  After the substitution pass of a row, every
\* occurrence of a placeholder of array depth 0 whose column holds a
\* non-empty cell is the trimmed cell, in every string leaf where it occurs,
\* and the rest of each leaf and of the manifest is as in the template.
C12_Columns == <<Text_f, Text_x, Text_y>>

\* the column whose placeholder starts text and whose cell in row is not
\* empty, or 0
C12_ColumnAt(text, row) ==
    LET cols == {c \in 1..Len(C12_Columns) :
                    /\ StartsWith(text, C12_Columns[c])
                    /\ Strip(row[c]) # <<>>}
    IN  IF cols = {} THEN 0 ELSE CHOOSE c \in cols : TRUE

RECURSIVE C12_Text(_, _)
C12_Text(text, row) ==
    IF text = <<>> THEN <<>>
    ELSE LET c == C12_ColumnAt(text, row)
         IN  IF c = 0 THEN <<Head(text)>> \o C12_Text(Tail(text), row)
             ELSE Strip(row[c])
                  \o C12_Text(SubSeq(text, Len(C12_Columns[c]) + 1, Len(text)), row)

RECURSIVE C12_Json(_, _)
C12_Json(j, row) ==
    IF IsStr(j) THEN JStr(C12_Text(j[2], row))
    ELSE IF IsDict(j)
    THEN JDict([i \in 1..Len(j[2]) |-> Item(j[2][i][1], C12_Json(j[2][i][2], row))])
    ELSE j

C12_ScalarsSubstituted ==
    (inp.id = "scalar" /\ last.kind \in {"ok", "fault"}) =>
        last.passes.substituted = C12_Json(root_template, last.row)

\* C13: the back-fill of required fields only adds.  Every key path of the
\* manifest before add_required_fields is there afterwards, a scalar with
\* its value and a sequence with its length, and every key that was added
\* is a key of the required template at that place which is not marked
\* optional with the `$` prefix: same-typed containers are recursed into,
\* never overwritten.
RECURSIVE C13_Kept(_, _)
C13_Kept(before, after) ==
    IF IsDict(before)
    THEN /\ IsDict(after)
         /\ \A i \in 1..Len(before[2]) :
               /\ DictHas(after, before[2][i][1])
               /\ C13_Kept(before[2][i][2], DictGet(after, before[2][i][1]))
    ELSE IF IsList(before)
    THEN /\ IsList(after)
         /\ Len(after[2]) = Len(before[2])
         /\ \A i \in 1..Len(before[2]) : C13_Kept(before[2][i], after[2][i])
    ELSE after = before

\* the values the required templates srcs hold for key, optional or not,
\* and the values they hold for it as a key that is not optional
C13_Under(srcs, key) ==
    UNION {{s[2][i][2] : i \in {i \in 1..Len(s[2]) :
                                  s[2][i][1] \in {key, tag_optional_field \o key}}} :
           s \in {s \in srcs : IsDict(s)}}

C13_Required(srcs, key) ==
    UNION {{s[2][i][2] : i \in {i \in 1..Len(s[2]) : s[2][i][1] = key}} :
           s \in {s \in srcs : IsDict(s)}}

C13_Items(srcs) ==
    UNION {{s[2][i] : i \in 1..Len(s[2])} : s \in {s \in srcs : IsList(s)}}

RECURSIVE C13_Added(_, _, _)
C13_Added(before, after, srcs) ==
    IF IsDict(after)
    THEN \A i \in 1..Len(after[2]) :
           LET key == after[2][i][1]
               val == after[2][i][2]
           IN  IF DictHas(before, key)
               THEN C13_Added(DictGet(before, key), val, C13_Under(srcs, key))
               ELSE \E v_src \in C13_Required(srcs, key) :
                       IF IsDict(v_src)
                       THEN IsDict(val) /\ C13_Added(JDict(<<>>), val, C13_Under(srcs, key))
                       ELSE IF IsList(v_src) THEN val = JList(<<>>)
                       ELSE val = v_src
    ELSE IF IsList(after)
    THEN \A i \in 1..Len(after[2]) : C13_Added(before[2][i], after[2][i], C13_Items(srcs))
    ELSE TRUE

C13_BackFillOnlyAdds ==
    (required_template # None /\ last.kind \in {"ok", "fault"}
     /\ ~IsFault(last.passes.stripped) /\ ~IsFault(last.passes.filled)) =>
        /\ C13_Kept(last.passes.stripped, last.passes.filled)
        /\ C13_Added(last.passes.stripped, last.passes.filled, {required_template})

\* a row whose manifest had a scalar that the required template holds with
\* another value, and got keys from the required template
C13_Witness ==
    /\ inp.id = "required"
    /\ last.kind = "ok"
    /\ DictGet(last.passes.stripped, <<"a">>) = JStr(<<"5">>)
    /\ DictGet(required_template, <<"a">>) = JStr(<<"Z">>)
    /\ ~DictHas(last.passes.stripped, Chars_legal)
    /\ DictGet(last.passes.filled, Chars_legal)
         = JDict(<<Item(Chars_legaltags, JList(<<>>)), Item(<<"s">>, JStr(<<"d">>))>>)
    /\ DictGet(DictGet(last.passes.filled, <<"l">>)[2][2], <<"w">>) = JStr(<<"8">>)

\* C14: tag stripping.  A key that holds $$_oneOf_<n>$$ or $$_anyOf_<n>$$ is
\* renamed to the key without the tag and keeps its value; when the key
\* without the tag is already in the same map, from another tagged key or
\* as an untagged key of whatever value, remove_special_tags raises, the row
\* is skipped and no manifest is written for it.
RECURSIVE C14_Collides(_)
C14_Collides(j) ==
    IF IsDict(j)
    THEN \/ \E i, k \in 1..Len(j[2]) :
               /\ i # k
               /\ StripTags(j[2][i][1]) # j[2][i][1]
               /\ StripTags(j[2][i][1]) = StripTags(j[2][k][1])
         \/ \E i \in 1..Len(j[2]) : C14_Collides(j[2][i][2])
    ELSE IF IsList(j) THEN \E i \in 1..Len(j[2]) : C14_Collides(j[2][i])
    ELSE FALSE

RECURSIVE C14_Renamed(_, _)
C14_Renamed(before, after) ==
    IF IsDict(before)
    THEN /\ IsDict(after)
         /\ Len(after[2]) = Len(before[2])
         /\ \A i \in 1..Len(before[2]) :
               /\ DictHas(after, StripTags(before[2][i][1]))
               /\ C14_Renamed(before[2][i][2],
                              DictGet(after, StripTags(before[2][i][1])))
    ELSE IF IsList(before)
    THEN /\ IsList(after)
         /\ Len(after[2]) = Len(before[2])
         /\ \A i \in 1..Len(before[2]) : C14_Renamed(before[2][i], after[2][i])
    ELSE after = before

C14_TagsStripped ==
    (inp.id = "tags" /\ pc = "rows" /\ last.kind \in {"ok", "fault"}
     /\ ~IsFault(last.passes.pruned)) =>
        IF C14_Collides(last.passes.pruned)
        THEN /\ IsFault(last.passes.stripped)
             /\ last.kind = "fault"
             /\ files = last.pre_files
        ELSE /\ ~IsFault(last.passes.stripped)
             /\ C14_Renamed(last.passes.pruned, last.passes.stripped)

\* C16: when a column name that a parameter binds to (the key of a scalar
\* parameter, or the key of an array parameter followed by _<i> for an index
\* of the header) occurs more than once in the header row,
\* map_csv_column_names_to_parameters raises: the run is aborted before any
\* data row is processed and no output file is written.
C16_Binds(template, name) ==
    \/ name = <<"f">>
    \/ template = Template_name /\ name = <<"x">>
    \/ /\ template = Template_items
       /\ Len(name) > 2
       /\ SubSeq(name, 1, 2) = <<"x", "_">>
       /\ AllDigits(SubSeq(name, 3, Len(name)))
       /\ name[3] # "0"

C16_BoundTwice(template, header) ==
    \E i, j \in 1..Len(header) :
        /\ i # j
        /\ Lower(Strip(header[i])) = Lower(Strip(header[j]))
        /\ C16_Binds(template, Lower(Strip(header[i])))

C16_DuplicateColumnAborts ==
    (inp.id = "twice" /\ C16_BoundTwice(inp.template_json, inp.header) /\ pc # "start") =>
        /\ pc = "aborted"
        /\ reported.error = "Duplicate parameter found in csv file"
        /\ row_count = 0
        /\ last = NoLast
        /\ files = NoFiles

\* the run with header f,x_1,x_3,x_3 for an array parameter x was aborted
C16_Witness ==
    /\ inp.id = "twice"
    /\ inp.template_json = Template_items
    /\ Len(inp.header) = 4
    /\ C16_BoundTwice(inp.template_json, inp.header)
    /\ pc = "aborted"

\* C17: a placeholder with an occurrence at array depth > 0 that already has
\* a binding from an earlier occurrence (an array occurrence, or a scalar one
\* whose column is in the header) makes map_csv_column_names_to_parameters
\* raise the duplicate-array-parameter fault: the run is aborted before any
\* data row is processed.
C17_BoundBefore(recs, r, key, header) ==
    \E q \in 1..(r - 1) :
        \/ Len(recs[q].root_list) > 0
        \/ \E c \in 1..Len(header) : Lower(Strip(header[c])) = key

C17_ArrayBoundTwice(po, header) ==
    \E p \in 1..Len(po) : \E r \in 1..Len(po[p][2]) :
        /\ Len(po[p][2][r].root_list) > 0
        /\ C17_BoundBefore(po[p][2], r, ParameterKey(po[p][1]), header)

C17_DuplicateArrayParameterAborts ==
    (inp.id = "rebound" /\ pc # "start"
     /\ C17_ArrayBoundTwice(parameters_object, inp.header)) =>
        /\ pc = "aborted"
        /\ reported.error = "Duplicate array parameter not allowed"
        /\ row_count = 0
        /\ last = NoLast
        /\ files = NoFiles

\* a run aborted for an array occurrence that follows a bound scalar one
C17_Witness ==
    /\ inp.id = "rebound"
    /\ inp.template_json = Template_scalar_items
    /\ C17_ArrayBoundTwice(parameters_object, inp.header)
    /\ pc = "aborted"

\* C18: when an ACL viewer or owner is supplied, the acl section of the
\* manifest of every row is replaced as a whole: it holds viewers [viewer]
\* exactly when a viewer is supplied and owners [owner] exactly when an
\* owner is supplied and nothing else, whatever the template and the
\* back-fill put there; when neither is supplied the section is as the
\* back-fill left it.  The rest of the manifest is untouched either way.
C18_Supplied(x) == x # None /\ x # JStr(<<>>)

C18_Acl(acl_viewer, acl_owner) ==
    JDict((IF C18_Supplied(acl_viewer)
           THEN <<Item(Chars_viewers, JList(<<acl_viewer>>))>> ELSE <<>>)
          \o (IF C18_Supplied(acl_owner)
              THEN <<Item(Chars_owners, JList(<<acl_owner>>))>> ELSE <<>>))

C18_AclReplaced ==
    (last.kind \in {"ok", "fault"} /\ ~IsFault(last.passes.manifest)
     /\ inp.legal_tag = None) =>
        IF C18_Supplied(inp.acl_viewer) \/ C18_Supplied(inp.acl_owner)
        THEN /\ DictGet(last.passes.manifest, Chars_acl)
                  = C18_Acl(inp.acl_viewer, inp.acl_owner)
             /\ DictDel(last.passes.manifest, Chars_acl)
                  = DictDel(last.passes.filled, Chars_acl)
        ELSE last.passes.manifest = last.passes.filled

\* a written manifest whose acl section held a template value and a
\* back-filled one before the viewer replaced it
C18_Witness ==
    /\ inp.id = "acl"
    /\ last.kind = "ok"
    /\ inp.acl_viewer = JStr(<<"V">>)
    /\ ~C18_Supplied(inp.acl_owner)
    /\ DictGet(DictGet(last.passes.filled, Chars_acl), <<"z">>) = JStr(<<"5">>)
    /\ DictGet(DictGet(last.passes.filled, Chars_acl), <<"q">>) = JStr(<<"d">>)
    /\ DictGet(last.doc, Chars_acl)
         = JDict(<<Item(Chars_viewers, JList(<<JStr(<<"V">>)>>))>>)

\* C19: when a legal tag is supplied, the manifest of every non-empty data
\* row that reached the last pass has legal.legaltags = [tag] and
\* legal.otherRelevantDataCountries = ["US"], the other fields of legal are
\* as they were, and this holds too for a row whose manifest had no legal
\* map before the pass.
C19_Others(legal) ==
    IF IsDict(legal) THEN DictDel(DictDel(legal, Chars_legaltags), Chars_countries)
    ELSE JDict(<<>>)

C19_LegalTagSet ==
    (inp.legal_tag # None /\ inp.legal_tag # JStr(<<>>)
     /\ last.kind \in {"ok", "fault"} /\ ~IsFault(last.passes.filled)) =>
        /\ ~IsFault(last.passes.manifest)
        /\ LET legal == DictGet(last.passes.manifest, Chars_legal)
           IN  /\ IsDict(legal)
               /\ DictGet(legal, Chars_legaltags) = JList(<<inp.legal_tag>>)
               /\ DictGet(legal, Chars_countries) = JList(<<JStr(Chars_US)>>)
               /\ C19_Others(legal)
                    = C19_Others(DictGet(last.passes.filled, Chars_legal))

\* C20: a row whose materialized manifest holds a $filename text is written
\* to the output directory under that text with every / and \ replaced by -
\* (unless the name collides, ignoring case, with the name of an earlier
\* row, which the collision rule renames), and the $filename key is absent
\* from the manifest that is written or appended to the group document.
C20_Dashed(s) == [i \in 1..Len(s) |-> IF s[i] \in {"/", "\\"} THEN "-" ELSE s[i]]

RECURSIVE C20_Mentions(_, _)
C20_Mentions(j, key) ==
    IF IsDict(j)
    THEN \E i \in 1..Len(j[2]) : j[2][i][1] = key \/ C20_Mentions(j[2][i][2], key)
    ELSE IF IsList(j) THEN \E i \in 1..Len(j[2]) : C20_Mentions(j[2][i], key)
    ELSE FALSE

C20_Target == inp.output_path \o <<"/">>
              \o C20_Dashed(DictGet(last.passes.manifest, tag_file_name)[2])

--------------------------------------------------------------------------
(* Properties of lists that are not array templates                        *)

\* the lists of length other than 1 that t holds under keys of dicts only,
\* each with the keys that lead to it
RECURSIVE C21_Literals(_, _)
C21_Literals(t, keys) ==
    IF IsDict(t)
    THEN UNION {LET v == t[2][i][2]
                    k == Append(keys, t[2][i][1])
                IN  IF IsList(v) /\ Len(v[2]) # 1 THEN {<<k, v>>}
                    ELSE C21_Literals(v, k) : i \in 1..Len(t[2])}
    ELSE {}

\* C21 as the spec states it: a list of the template whose length is not 1
\* is in the manifest of every materialized row, under its keys, as the
\* template has it.
C21_LiteralListsUnchanged ==
    (last.kind = "ok" /\ IsDict(last.passes.manifest)) =>
        \A lit \in C21_Literals(root_template, <<>>) :
            GetAt(last.passes.manifest, KeySteps(lit[1])) = lit[2]

\* C21, amended: only lists of length 1 are array templates.  Every anchor
\* of every occurrence of parameters_object is a list of length 1 and every
\* occurrence is a string reached from its root by keys of dicts, and every
\* bound placeholder is indexed; a list of another length comes out of the
\* substitution pass as the template has it (no element added, no
\* placeholder in it replaced), and out of the prune pass as clear_list
\* leaves it: without its strings that hold a placeholder and without its
\* empty items, and not at all when nothing is left of it.
C21_LiteralListsNotExpanded ==
    /\ pc # "start" =>
          /\ \A i \in 1..Len(parameters_object) :
                \A o \in 1..Len(parameters_object[i][2]) :
                   LET occ == parameters_object[i][2][o]
                   IN  /\ IsStr(GetAt(occ.root, KeySteps(occ.keys)))
                       /\ \A a \in 1..Len(occ.root_list) :
                             LET v == GetAt(occ.root_list[a].root,
                                            KeySteps(occ.root_list[a].keys))
                             IN  IsList(v) /\ Len(v[2]) = 1
          /\ \A i \in 1..Len(map_parameter_column) :
                PoHas(parameters_object, map_parameter_column[i][1])
    /\ (last.kind = "ok" /\ IsDict(last.passes.pruned)) =>
          \A lit \in C21_Literals(root_template, <<>>) :
             /\ GetAt(last.passes.substituted, KeySteps(lit[1])) = lit[2]
             /\ IF clear_list(lit[2])[2] = <<>>
                THEN IsFault(GetAt(last.passes.pruned, KeySteps(lit[1])))
                ELSE GetAt(last.passes.pruned, KeySteps(lit[1])) = clear_list(lit[2])

\* the row A.json,1,2 of the template with the lists ["{{y}}", "k"], [],
\* [["{{y}}"], {"q": "{{y}}"}] and ["k", "j"] under the header f,x,y: y is
\* neither indexed nor bound and the manifest is
\* {"$filename": "A.json", "a": "1", "l": ["k"], "c": ["k", "j"]}
C21_Witness ==
    /\ inp.id = "literal"
    /\ inp.header = Header_fxy
    /\ last.kind = "ok"
    /\ last.row = <<Name_A, <<"1">>, <<"2">>>>
    /\ ~PoHas(parameters_object, Text_y)
    /\ ~MapHas(map_parameter_column, Text_y)
    /\ last.passes.manifest
         = JDict(<<Item(tag_file_name, JStr(Name_A)),
                   Item(<<"a">>, JStr(<<"1">>)),
                   Item(<<"l">>, JList(<<JStr(<<"k">>)>>)),
                   Item(<<"c">>, JList(<<JStr(<<"k">>), JStr(<<"j">>)>>))>>)

--------------------------------------------------------------------------
(* Properties of the re-derived parameter index                            *)

--------------------------------------------------------------------------
(* Properties of the shape of the bindings                                 *)

\* C23: once map_csv_column_names_to_parameters has returned, a placeholder
\* bound to a column index has only occurrences outside arrays (root_list
\* empty) and a placeholder bound to a list of coordinate lists has only
\* occurrences inside arrays (root_list not empty).
C23_BindingsOfOneShape ==
    pc = "rows" =>
        \A i \in 1..Len(map_parameter_column) :
            LET parameter == map_parameter_column[i][1]
                binding == map_parameter_column[i][2]
                recs == PoGet(parameters_object, parameter)
            IN  \A o \in 1..Len(recs) :
                    /\ binding[1] = "col" => Len(recs[o].root_list) = 0
                    /\ binding[1] = "list" => Len(recs[o].root_list) > 0

--------------------------------------------------------------------------
(* Frame of create_manifest_from_row                                       *)

C24_Frame(r) ==
    /\ root_template = r.root_template
    /\ required_template = r.required_template
    /\ parameters_object = r.parameters_object
    /\ map_parameter_column = r.map_parameter_column
    /\ last.passes = Passes(r.root_template, r.required_template, r.parameters_object,
                            r.map_parameter_column, last.row, inp.acl_viewer,
                            inp.acl_owner, inp.legal_tag)

--------------------------------------------------------------------------
(* Properties of the bindings of array parameters                          *)

\* the lists [i1 - 1, ..., id - 1, column index], one for each column name
\* of the form key_i1_..._id
C25_Tuples(column_names, parameter_key, d_array) ==
    {[j \in 1..(d_array + 1) |->
         IF j = d_array + 1 THEN c - 1
         ELSE ColNums(parameter_key, column_names[c])[j] - 1] :
       c \in {c \in 1..Len(column_names) :
                 MatchesIndexed(parameter_key, d_array, column_names[c])}}

\* a comes before b in the lexicographic order of their first d_array entries
C25_Before(a, b, d_array) ==
    \E j \in 1..d_array :
        /\ a[j] < b[j]
        /\ \A k \in 1..(j - 1) : a[k] = b[k]

\* the array depth of the occurrence that was bound to a list: the only
\* occurrence of the parameter inside arrays
C25_Depth(recs) == Max({Len(recs[o].root_list) : o \in 1..Len(recs)})

C25_ListOf(l, column_names, parameter_key, d_array) ==
    /\ {l[k] : k \in 1..Len(l)} = C25_Tuples(column_names, parameter_key, d_array)
    /\ \A k1, k2 \in 1..Len(l) : k1 < k2 => C25_Before(l[k1], l[k2], d_array)

\* C25: when no two column names of the header are the same and the binder
\* has returned, the list bound to an array parameter of depth d holds one
\* entry [i1 - 1, ..., id - 1, column index] for each column name
\* key_i1_..._id (every index a positive integer without a leading zero) and
\* nothing else, in lexicographic order of the coordinates; it is the empty
\* list when no column name has that form.
C25_ArrayBindingEnumerated ==
    (/\ pc = "rows"
     /\ \A c1, c2 \in 1..Len(inp.header) :
           column_names_of(inp.header)[c1] = column_names_of(inp.header)[c2] => c1 = c2) =>
        \A i \in 1..Len(map_parameter_column) :
            map_parameter_column[i][2][1] = "list" =>
                C25_ListOf(map_parameter_column[i][2][2], column_names_of(inp.header),
                           ParameterKey(map_parameter_column[i][1]),
                           C25_Depth(PoGet(parameters_object,
                                           map_parameter_column[i][1])))

\* under the header f, y_1, y_2, z_1_1, z_2_2, z_1_3 the parameter z of depth
\* 2 is bound to [[0, 0, 3], [0, 2, 5], [1, 1, 4]] and y of depth 1 to
\* [[0, 1], [1, 2]]
C25_Witness ==
    /\ inp.id = "nested"
    /\ pc = "rows"
    /\ MapGet(map_parameter_column, Text_z)
         = BindList(<<<<0, 0, 3>>, <<0, 2, 5>>, <<1, 1, 4>>>>)
    /\ MapGet(map_parameter_column, Text_y) = BindList(<<<<0, 1>>, <<1, 2>>>>)

\* under a header without a column name of the form of an array parameter
\* the binder returns and the parameter is bound to the empty list
C25_WitnessNoColumn ==
    /\ inp.id = "nested"
    /\ inp.header = Header_unindexed
    /\ pc = "rows"
    /\ MapGet(map_parameter_column, Text_z) = BindList(<<>>)
    /\ MapGet(map_parameter_column, Text_y) = BindList(<<>>)

--------------------------------------------------------------------------
(* Properties of the elements grown for blank cells                        *)

\* the entries of the binding list l whose cell of the row is not blank
C26_Filled(l, row) ==
    SelectSeq(l, LAMBDA e : e[2] + 1 <= Len(row) /\ Strip(row[e[2] + 1]) # <<>>)

\* the array anchored at a holds one element for each entry of l with a cell
\* that is not blank, and is absent when there is none
C26_OnePerCell(manifest, a, l, row) ==
    LET out == GetAt(manifest, KeySteps(a.keys))
    IN  IF C26_Filled(l, row) = <<>> THEN ~IsList(out)
        ELSE IsList(out) /\ Len(out[2]) = Len(C26_Filled(l, row))

\* C26: in the manifest of a materialized row, the array of a parameter of
\* depth 1 has exactly one element for each bound coordinate whose cell is
\* not blank: the elements grown for blank cells and for gaps are not in it.
C26_StubsCollapse ==
    (last.kind = "ok" /\ IsDict(last.passes.manifest)) =>
        \A i \in 1..Len(map_parameter_column) :
            LET recs == PoGet(parameters_object, map_parameter_column[i][1])
            IN  (/\ map_parameter_column[i][2][1] = "list"
                 /\ Len(recs) = 1
                 /\ Len(recs[1].root_list) = 1) =>
                    C26_OnePerCell(last.passes.manifest, recs[1].root_list[1],
                                   map_parameter_column[i][2][2], last.row)

--------------------------------------------------------------------------
(* Properties of the order of the passes                                   *)

\* the keys that lead, through dicts only, to the dicts and lists that are
\* in after and not in before
RECURSIVE C27_Injected(_, _, _)
C27_Injected(before, after, keys) ==
    IF IsDict(after)
    THEN UNION {LET key == after[2][i][1]
                    val == after[2][i][2]
                    k == Append(keys, key)
                IN  IF IsDict(before) /\ DictHas(before, key)
                    THEN C27_Injected(DictGet(before, key), val, k)
                    ELSE IF IsDict(val) \/ IsList(val)
                    THEN {k} \cup C27_Injected(JDict(<<>>), val, k)
                    ELSE {} : i \in 1..Len(after[2])}
    ELSE {}

C27_Overrides ==
    /\ (C18_Supplied(inp.acl_viewer) \/ C18_Supplied(inp.acl_owner)) =>
          DictGet(last.passes.manifest, Chars_acl)
            = C18_Acl(inp.acl_viewer, inp.acl_owner)
    /\ C18_Supplied(inp.legal_tag) =>
          /\ DictGet(DictGet(last.passes.manifest, Chars_legal), Chars_legaltags)
               = JList(<<inp.legal_tag>>)
          /\ DictGet(DictGet(last.passes.manifest, Chars_legal), Chars_countries)
               = JList(<<JStr(Chars_US)>>)

\* C27 as the spec states it: in the manifest of a materialized row every
\* container that the back-fill injected is present, and the ACL and legal
\* values of the caller are the ones in the manifest.
C27_BackFilledPresent ==
    (last.kind = "ok" /\ IsDict(last.passes.manifest)) =>
        /\ \A k \in C27_Injected(last.passes.stripped, last.passes.filled, <<>>) :
              LET v == GetAt(last.passes.manifest, KeySteps(k))
              IN  IsDict(v) \/ IsList(v)
        /\ C27_Overrides

\* C27, amended: the passes run in the order substitute, prune, strip tags,
\* back-fill, ACL, legal tag, each on what the pass before left.  A
\* container that the back-fill injected is therefore not pruned: it is in
\* the manifest, and outside the legal section as the back-fill left it,
\* unless it lies in the acl section and an ACL is supplied, which replaces
\* that section whole.  The ACL and legal values of the caller are the ones
\* in the manifest, whatever the template and the back-fill put there.
C27_PassOrder ==
    (last.kind = "ok" /\ IsDict(last.passes.manifest)) =>
        /\ last.passes.pruned = clear_non_filled_parameters(last.passes.substituted)
        /\ last.passes.stripped = remove_special_tags(last.passes.pruned)
        /\ last.passes.filled
             = add_required_fields(last.passes.stripped, required_template)
        /\ \A k \in C27_Injected(last.passes.stripped, last.passes.filled, <<>>) :
              (~(/\ k[1] = Chars_acl
                 /\ C18_Supplied(inp.acl_viewer) \/ C18_Supplied(inp.acl_owner))) =>
                  LET v == GetAt(last.passes.manifest, KeySteps(k))
                      w == GetAt(last.passes.filled, KeySteps(k))
                  IN  /\ v[1] = w[1]
                      /\ k[1] # Chars_legal => v = w
        /\ C27_Overrides

\* the row a.json with a blank x of the template whose legal section holds
\* only {{x}}: the section is pruned, injected again by the back-fill with
\* the empty containers e and g.h, and then given the tag; the ACL replaces
\* the back-filled acl section
C27_Witness ==
    /\ inp.id = "order"
    /\ last.kind = "ok"
    /\ inp.acl_viewer = JStr(<<"V">>)
    /\ inp.legal_tag = JStr(<<"T">>)
    /\ ~DictHas(last.passes.pruned, Chars_legal)
    /\ last.passes.manifest
         = JDict(<<Item(tag_file_name, JStr(Name_a)),
                   Item(Chars_legal,
                        JDict(<<Item(Chars_legaltags, JList(<<JStr(<<"T">>)>>)),
                                Item(Chars_countries, JList(<<JStr(Chars_US)>>)),
                                Item(<<"s">>, JStr(<<"d">>))>>)),
                   Item(<<"e">>, JDict(<<>>)),
                   Item(<<"g">>, JDict(<<Item(<<"h">>, JList(<<>>))>>)),
                   Item(Chars_acl,
                        JDict(<<Item(Chars_viewers, JList(<<JStr(<<"V">>)>>))>>))>>)

--------------------------------------------------------------------------
(* Properties of the processed names and the files                         *)

\* C28: without a group file, after any data rows, every path of processed
\* is the path of a file of the output directory: the os.remove of a row
\* that raised removes no file that an earlier row was written under.
C28_ProcessedFilesExist ==
    (pc = "rows" /\ group_lm = None) =>
        \A path \in processed : path \in DOMAIN files

--------------------------------------------------------------------------
(* Properties of manifest_ingest and send_request                          *)

RECURSIVE C29_Concat(_)
C29_Concat(seqs) == IF seqs = <<>> THEN <<>> ELSE Head(seqs) \o C29_Concat(Tail(seqs))

\* the items of a call in input order: the data objects, or for MasterData
\* the records of the data objects
C29_Items(c) ==
    IF c.data_type = "MasterData"
    THEN C29_Concat([k \in 1..Len(c.data_objects) |-> c.data_objects[k][2]])
    ELSE c.data_objects

C29_Prefix(s, t) == Len(s) <= Len(t) /\ SubSeq(t, 1, Len(s)) = s

\* C29: with batch_size >= 1, every batch passed to send_batch_request is
\* non-empty and holds at most batch_size items; at every moment the batches
\* sent so far, concatenated, are the first items of the input in input
\* order, followed in the loop by the items waiting in batch_objects; and
\* when manifest_ingest has returned they are the whole input, nothing
\* waiting.
C29_BatchesAreTheInput ==
    lpc # "off" =>
        /\ \A k \in 1..Len(batches) :
              batches[k] # <<>> /\ Len(batches[k]) <= call.batch_size
        /\ C29_Prefix(C29_Concat(batches), C29_Items(call))
        /\ lpc = "loop" =>
              C29_Prefix(C29_Concat(batches) \o batch_objects, C29_Items(call))
        /\ lpc = "returned" =>
              /\ C29_Concat(batches) = C29_Items(call)
              /\ batch_objects = <<>>

\* a MasterData call with batch_size 2 and the data objects [a, b] and [a]
\* has returned after the batches [a, b] and, after the loop, [a]
C29_Witness ==
    /\ lpc = "returned"
    /\ call.data_type = "MasterData"
    /\ call.batch_size = 2
    /\ call.data_objects = <<JList(<<JStr(<<"a">>), JStr(<<"b">>)>>),
                             JList(<<JStr(<<"a">>)>>)>>
    /\ batches = <<<<JStr(<<"a">>), JStr(<<"b">>)>>, <<JStr(<<"a">>)>>>>
    /\ final

\* a call of another type with batch_size 3 and the data objects a, b, a has
\* returned after the batches [a] and [b, a]: the first a equals the last
\* data object
C29_WitnessEqualToLast ==
    /\ lpc = "returned"
    /\ call.data_type = "ReferenceData"
    /\ call.batch_size = 3
    /\ batches = <<<<JStr(<<"a">>)>>, <<JStr(<<"b">>), JStr(<<"a">>)>>>>

C30_Posts == {i \in 1..Len(events) : events[i][1] = "post"}

\* C30: in one send_request there are at most retries posts; no post follows
\* a response of status 200, whose run id is written to the execution log
\* once, right after it (unless its body is not JSON, when send_request does
\* not return); a sleep comes only right after a failed post whose status
\* is not a bad-token status and that is not the last attempt; and when
\* send_request has returned without a response of status 200 it has made
\* all its attempts and has logged nothing, and it never ends by an
\* exception when every attempt was answered with a status other than 200.
C30_SendRequestRetries ==
    lpc # "off" =>
        /\ Cardinality(C30_Posts) <= call.retries
        /\ \A i \in C30_Posts :
              events[i][2] \in DATA_LOAD_OK_RESPONSE_CODES =>
                 /\ \A j \in C30_Posts : j <= i
                 /\ \/ lpc \in {"exited", "raised"}
                    \/ i < Len(events) /\ events[i + 1] = Logged
        /\ \A i \in 1..Len(events) :
              events[i] = Logged =>
                 /\ i > 1 /\ events[i - 1] = Posted(200)
                 /\ Cardinality({k \in 1..Len(log) : log[k] = Len(batches)}) = 1
        /\ \A i \in 1..Len(events) :
              events[i] = Slept =>
                 /\ i > 1
                 /\ events[i - 1][1] = "post"
                 /\ events[i - 1][2] \notin DATA_LOAD_OK_RESPONSE_CODES
                 /\ events[i - 1][2] \notin BAD_TOKEN_RESPONSE_CODES
                 /\ Cardinality({j \in C30_Posts : j < i}) < call.retries
        /\ (lpc = "sent" /\ Posted(200) \notin {events[i] : i \in 1..Len(events)}) =>
              /\ Cardinality(C30_Posts) = call.retries
              /\ Logged \notin {events[i] : i \in 1..Len(events)}
              /\ \A k \in 1..Len(log) : log[k] # Len(batches)
        /\ lpc \in {"exited", "raised"} =>
              Cardinality({i \in C30_Posts :
                              events[i][2] \notin DATA_LOAD_OK_RESPONSE_CODES})
                < call.retries

\* with 3 retries: 503, a sleep, 401 and no sleep, then 200 and the run id
C30_Witness ==
    /\ lpc = "sent"
    /\ call.retries = 3
    /\ events = <<Posted(503), Slept, Posted(401), Posted(200), Logged>>
    /\ log # <<>>

\* with 3 retries: three failed attempts, no sleep after the last, and
\* send_request returns with nothing logged
C30_WitnessAllFailed ==
    /\ lpc = "sent"
    /\ call.retries = 3
    /\ events = <<Posted(503), Slept, Posted(401), Posted(503)>>
    /\ log = <<>>

====
